---- MODULE Spec2Model ----
(***************************************************************************)
(* A model of the match simulation core of feremabraz/soccer-simulation:   *)
(* MatchEngine (src/lib/match/match-engine.ts), MatchState                 *)
(* (src/lib/match/match-state.ts), BallEntity (src/lib/core/ball.ts),      *)
(* TeamEntity (src/lib/core/team.ts), PlayerEntity (src/lib/core/player.ts)*)
(* MatchRules (src/lib/rules/match-rules.ts) and FormationSystem           *)
(* (src/lib/tactics/formation-system.ts).                                  *)
(*                                                                         *)
(* Numbers.  Coordinates and velocities are integers; a product with a     *)
(* fractional factor (friction 0.9, bounce 0.5, attraction 0.3) is         *)
(* truncated toward zero.  gameSpeed is kept in tenths (10 is the speed    *)
(* 1.0) and the real time between two timer callbacks is counted in units  *)
(* of ten seconds, so that scaledDelta = deltaTime * gameSpeed is a whole  *)
(* number of seconds.                                                      *)
(*                                                                         *)
(* One run of MatchEngine.update() is a chain of steps guarded by pc; no   *)
(* other operation is enabled before the chain is back at "ready"          *)
(* (JavaScript runs a timer callback to completion).                       *)
(***************************************************************************)
EXTENDS Integers, Sequences, FiniteSets, TLC

VARIABLES
    matchState,   \* MatchEngine.matchState: gameState, gameSpeed, gameTime, half,
                  \* score, gameEvents, setpiece, stoppageTime, stoppageTimeAdded
    ball,         \* MatchEngine.ball: position, velocity, possessor, lastTouchTeam
    players,      \* MatchEngine.players: id -> team, role, position, targetPosition
    homeTeam,     \* MatchEngine.homeTeam: players (ids in roster order), formationPositions
    awayTeam,     \* MatchEngine.awayTeam
    intervalId,   \* MatchEngine.intervalId: TRUE while a tick timer is installed
    timers,       \* the interval timers of the runtime that setInterval created and
                  \* no clearInterval has cleared
    sinceLast,    \* Date.now() - MatchEngine.lastUpdateTime
    pc,           \* position inside MatchEngine.update()
    scaledDelta,  \* the local scaledDelta of the update() in progress
    result,       \* the last call of a query (a function that changes nothing) and
                  \* the value it returned
    teamData,     \* id and tactics of MatchEngine.homeTeam and MatchEngine.awayTeam
    teamTacticalState, \* teamTacticalStateAtom: the tactical state stored under each team id
    aiContext,    \* updatePlayerAI: the context each decision step of this tick was given
    benchPlayers, \* SubstitutionSystem.benchPlayers
    lastRunningIndex, \* selectorNodeLastRunningIndexAtom of one selector node and player
    activeList    \* the ids of the players of the list that makeSubstitution was
                  \* handed or returned last (its parameter activePlayers), in list order

vars == <<matchState, ball, players, homeTeam, awayTeam, intervalId, timers, sinceLast, pc, scaledDelta,
          result, teamData, teamTacticalState, aiContext, benchPlayers, lastRunningIndex,
          activeList>>

----------------------------------------------------------------------------
(* Bounds of the model *)

MaxGameTime == 140
MaxEvents == 3
MaxElapsed == 1
MaxPlayTime == 40
MaxChildren == 4

(* Program constants *)

HalfDuration == 45
LastHalf == 4
GoalWidth == 15
GoalCenterY == 50
PitchMax == 100
MinSpeed == 1
FatigueOne == 10000                \* fatigue 1, fatigue being counted in 1/10000
DecisionCooldown == 5              \* the cooldown makeDecision sets, 0.5, in tenths
MaxSpeed == 40
DefaultSpeed == 10

Sides == {"home", "away"}
NoPlayer == 0

Pos(x, y) == [x |-> x, y |-> y]
Center == Pos(50, 50)
\* null where a position is expected: off the pitch, returned by no computation
NullPosition == Pos(-1000, -1000)
NoSetpiece == [type |-> "none", team |-> "none", position |-> NullPosition]
\* no query has been called
NoCall == [op |-> "none"]

Min(a, b) == IF a < b THEN a ELSE b
Max(a, b) == IF a > b THEN a ELSE b
Abs(a) == IF a < 0 THEN -a ELSE a
\* a product with a fractional factor num/den, truncated toward zero
Scale(a, num, den) == IF a >= 0 THEN (a * num) \div den ELSE -(((-a) * num) \div den)
OtherSide(t) == IF t = "home" THEN "away" ELSE "home"

(* Inputs *)

\* rosters handed to initialize: the roles in roster order
HomeRosterInputs == { <<"GK", "DEF">>, <<"FWD", "FWD">> }
AwayRosterInputs == { <<"GK">> }
\* the rosters of the specification that plays the ball
PlayHomeRosterInputs == { <<"FWD", "FWD">> }
PlayAwayRosterInputs == { <<"GK">> }
\* speeds handed to setGameSpeed, in tenths
SpeedInputs == {0, 50}
\* the same, with a speed inside [0.1, 4]
SpeedRangeInputs == {0, 20, 50}
\* velocities ball.kick can leave the ball with (direction * power * 0.2)
KickInputs == { Pos(5, 0), Pos(-5, 0) }
\* where the physics collaborator reports a body
PhysicsPositions == { Pos(40, 40) }
\* tactical dials the team tactical state hands to the formation system
DialInputs == { [defensiveLineHeight |-> 5, width |-> 5, compactness |-> 5],
                [defensiveLineHeight |-> 8, width |-> 7, compactness |-> 7] }

\* the balls handed to the rules: around every line the rules compare with
BallInputs ==
    { [position |-> Pos(x, y), velocity |-> Pos(0, 0), possessor |-> NoPlayer,
       lastTouchTeam |-> t] :
        x \in {-1, 0, 1, 50, 99, 100, 101},
        y \in {-1, 0, 1, 42, 43, 49, 50, 51, 57, 58, 70, 99, 100, 101},
        t \in Sides }

\* the player sets handed to the offside rule: three players of one side and one
\* of the other, on the line y = 50
OffsidePlayer(team, role, x) ==
    [team |-> team, role |-> role, position |-> Pos(x, 50), targetPosition |-> Pos(x, 50)]

OffsideXs == {30, 50, 70}

OffsidePlayerInputs ==
    UNION { LET a == IF three = "home" THEN 1 ELSE 11
                b == IF three = "home" THEN 11 ELSE 1
            IN  { (a :> OffsidePlayer(three, ra, xa)) @@ (a + 1 :> OffsidePlayer(three, rb, xb))
                    @@ (a + 2 :> OffsidePlayer(three, rc, xc))
                    @@ (b :> OffsidePlayer(OtherSide(three), rd, xd)) :
                  ra \in {"GK", "FWD"}, rb \in {"DEF", "FWD"}, rc \in {"DEF", "FWD"},
                  rd \in {"GK", "FWD"},
                  xa \in OffsideXs, xb \in OffsideXs, xc \in OffsideXs, xd \in OffsideXs } :
            three \in Sides }

OffsideBallInputs ==
    { [position |-> Pos(x, 50), velocity |-> Pos(0, 0), possessor |-> NoPlayer,
       lastTouchTeam |-> "home"] : x \in {20, 80} }

\* the team ids the model knows: the constructor's empty id, the two sides, and
\* two ids that are no side
TeamIds == {"", "home", "away", "red", "blue"}

\* the id and tactics of the TeamData handed to initialize
TeamDataInputs ==
    { [home |-> [id |-> "red", style |-> "possession", defensiveStyle |-> "midblock"],
       away |-> [id |-> "blue", style |-> "counter", defensiveStyle |-> "lowblock"]] }

\* the teams the tactical system is asked about: ids that are the side names and
\* ids that are not, two attacking styles for the home team
TacticsTeamDataInputs ==
    { [home |-> [id |-> ids[1], style |-> st, defensiveStyle |-> "midblock"],
       away |-> [id |-> ids[2], style |-> "counter", defensiveStyle |-> "lowblock"]] :
        ids \in { <<"home", "away">>, <<"red", "blue">> }, st \in {"possession", "pressing"} }

\* the match situations the tactical system is asked about: the score, the time
\* around minute 80, a set-piece or none, and the ball free or with a home player
SituationInputs ==
    { [score |-> [home |-> h, away |-> 0], gameTime |-> t, setpiece |-> sp,
       possessor |-> po] :
        h \in {0, 1}, t \in {80, 81},
        sp \in { NoSetpiece,
                 [type |-> "throwIn", team |-> "home", position |-> Pos(50, 0)],
                 [type |-> "corner", team |-> "away", position |-> Pos(0, 0)] },
        po \in {NoPlayer, 1} }

\* the benches handed to initializeBench, as the ids and roles of their players
HomeBenchInputs == { <<[id |-> 7, role |-> "DEF"]>>,
                     <<[id |-> 7, role |-> "DEF"], [id |-> 8, role |-> "FWD"]>> }
AwayBenchInputs == { <<>>, <<[id |-> 17, role |-> "GK"]>> }

\* the substitutions asked for
RequestInputs ==
    [team : Sides, playerOut : {1, 2, 7, 11}, playerIn : {1, 7, 8, 17}]

\* the stamina attribute of the players of a side
StaminaInputs == [home |-> 1, away |-> 2]

\* the gameSpeed handed to PlayerEntity.update (the scaled time of a tick), in tenths:
\* long ticks, so that fatigue reaches 1 within a few updates
UpdateSpeedInputs == {5000, 10000}

\* the targets handed to PlayerEntity.setTarget: inside the pitch near a line, and
\* outside the pitch
TargetInputs == { Pos(2, 50), Pos(-10, 120) }

\* the players of the decision steps: a home defender near a touchline with two
\* opponents inside its marking distance (10 and about 17 away)
DecisionPlayerInputs ==
    (1 :> [team |-> "home", role |-> "DEF", position |-> Pos(30, 85),
           attributes |-> [passing |-> 6, dribbling |-> 5], stamina |-> 100])
    @@ (11 :> [team |-> "away", role |-> "FWD", position |-> Pos(40, 85),
               attributes |-> [passing |-> 5, dribbling |-> 8], stamina |-> 100])
    @@ (12 :> [team |-> "away", role |-> "MID", position |-> Pos(42, 73),
               attributes |-> [passing |-> 7, dribbling |-> 5], stamina |-> 100])

\* the ball of the decision steps: free near the defender, four units from the
\* touchline; free far away; held by the forward
DecisionBallInputs ==
    { [position |-> Pos(30, 96), velocity |-> Pos(0, 0), possessor |-> NoPlayer,
       lastTouchTeam |-> "away"],
      [position |-> Pos(80, 50), velocity |-> Pos(0, 0), possessor |-> NoPlayer,
       lastTouchTeam |-> "home"],
      [position |-> Pos(40, 85), velocity |-> Pos(0, 0), possessor |-> 11,
       lastTouchTeam |-> "away"] }

\* the scaled time of a tick handed to update in the decision steps, in tenths
DecisionSpeedInputs == {3}

\* the behaviors a tactical state handed to updateAI is in
ContextBehaviorInputs == {"highPress", "lowBlock", "counterAttack"}

\* the outcomes of the random draws of one decision: the two comparisons
\* Math.random() < chance, the angle test of the pass search, and the
\* Math.random() of the offsets in quarters
RandomInputs == [first : BOOLEAN, second : BOOLEAN, blocked : {FALSE}, u : {3}]

\* the players that take decision steps; the others are only looked at
DeciderInputs == {1, 11}

\* FormationType
FormationType == {"4-4-2", "4-3-3", "4-2-3-1", "3-5-2", "5-3-2", "4-5-1"}

\* the defenders, midfielders and forwards of a formation
roleCounts(formation) ==
    CASE formation = "4-4-2" -> [DEF |-> 4, MID |-> 4, FWD |-> 2]
      [] formation = "4-3-3" -> [DEF |-> 4, MID |-> 3, FWD |-> 3]
      [] formation = "4-2-3-1" -> [DEF |-> 4, MID |-> 5, FWD |-> 1]
      [] formation = "3-5-2" -> [DEF |-> 3, MID |-> 5, FWD |-> 2]
      [] formation = "5-3-2" -> [DEF |-> 5, MID |-> 3, FWD |-> 2]
      [] formation = "4-5-1" -> [DEF |-> 4, MID |-> 5, FWD |-> 1]

\* the roles of a roster of eleven whose role counts are those of the formation:
\* the goalkeeper, then the defenders, the midfielders and the forwards
FormationRoster(formation) ==
    LET c == roleCounts(formation)
    IN  [i \in 1 .. 11 |-> IF i = 1 THEN "GK"
                           ELSE IF i <= 1 + c.DEF THEN "DEF"
                           ELSE IF i <= 1 + c.DEF + c.MID THEN "MID"
                           ELSE "FWD"]

\* who of a roster is unavailable: nobody, or the last forward, sent off
FormationUnavailableInputs == { {}, {11} }

\* who is unavailable when a tick starts: player 1 or player 12 injured, player
\* 11 sent off
UnavailableInputs == [injured : SUBSET {1, 12}, redCard : SUBSET {11}]

\* the defenders and the dangerous opponents createMarkingAssignments is given:
\* players of two teams, two of the defenders of equal tackling and two of the
\* opponents of equal finishing + dribbling
MarkingDefenderInputs ==
    { [id |-> 2, attributes |-> [tackling |-> 5, finishing |-> 2, dribbling |-> 3]],
      [id |-> 3, attributes |-> [tackling |-> 7, finishing |-> 2, dribbling |-> 3]],
      [id |-> 4, attributes |-> [tackling |-> 5, finishing |-> 3, dribbling |-> 4]] }

MarkingOpponentInputs ==
    { [id |-> 12, attributes |-> [tackling |-> 3, finishing |-> 6, dribbling |-> 3]],
      [id |-> 13, attributes |-> [tackling |-> 2, finishing |-> 4, dribbling |-> 7]],
      [id |-> 14, attributes |-> [tackling |-> 4, finishing |-> 5, dribbling |-> 4]] }

\* the lists a filter over a roster can return: no player twice
listsOf(S) ==
    UNION { { l \in [1..n -> S] : \A i, j \in 1..n : l[i] = l[j] => i = j } :
            n \in 0 .. Cardinality(S) }

HomeIds(roster) == 1 .. Len(roster)
AwayIds(roster) == { 10 + i : i \in 1 .. Len(roster) }
\* TeamData.players[i].position of the roster
RosterPosition(side) == IF side = "home" THEN Pos(25, 50) ELSE Pos(75, 50)

----------------------------------------------------------------------------
(* TeamEntity *)

\* ids of the team's players with the given role, in roster order
RoleIds(team, P, role) == SelectSeq(team.players, LAMBDA id : P[id].role = role)

\* TeamEntity.adjustFormationWidth applied to one slot, widthFactor = width * 0.6 + 5
\* with the constructor's default width 5
adjustFormationWidth(pos) ==
    LET widthFactor == 8
        adjustment == Scale(pos.y - 50, widthFactor, 5)
    IN  [pos EXCEPT !.y = Max(5, Min(95, 50 + adjustment))]

\* TeamEntity.setup442Formation: the slots of a 4-4-2
setup442Formation(team, P, isHome) ==
    LET baseX == IF isHome THEN 30 ELSE 70
        direction == IF isHome THEN 1 ELSE -1
        gks == RoleIds(team, P, "GK")
        defs == SubSeq(RoleIds(team, P, "DEF"), 1, Min(4, Len(RoleIds(team, P, "DEF"))))
        mids == SubSeq(RoleIds(team, P, "MID"), 1, Min(4, Len(RoleIds(team, P, "MID"))))
        fwds == SubSeq(RoleIds(team, P, "FWD"), 1, Min(2, Len(RoleIds(team, P, "FWD"))))
        gkSlots == IF Len(gks) >= 1 THEN { <<gks[1], Pos(baseX - 20 * direction, 50)>> } ELSE {}
        defSlots == IF Len(defs) >= 4
                    THEN { <<defs[i], Pos(baseX - 10 * direction, 20 * i)>> : i \in 1 .. 4 }
                    ELSE {}
        midSlots == IF Len(mids) >= 4
                    THEN { <<mids[i], Pos(baseX, 20 * i)>> : i \in 1 .. 4 }
                    ELSE {}
        fwdSlots == IF Len(fwds) >= 2
                    THEN { <<fwds[1], Pos(baseX + 15 * direction, 35)>>,
                           <<fwds[2], Pos(baseX + 15 * direction, 65)>> }
                    ELSE {}
        slots == gkSlots \cup defSlots \cup midSlots \cup fwdSlots
        ids == { s[1] : s \in slots }
    IN  [id \in ids |-> adjustFormationWidth((CHOOSE s \in slots : s[1] = id)[2])]

\* a resetPositions that puts the players back and forgets their targets
resetPositionsKeepTargets(team, P) ==
    [id \in DOMAIN P |->
        IF (\E i \in 1 .. Len(team.players) : team.players[i] = id)
              /\ id \in DOMAIN team.formationPositions
        THEN [P[id] EXCEPT !.position = team.formationPositions[id]]
        ELSE P[id]]

\* TeamEntity.resetPositions: every player of the team that has a slot is put on it
resetPositions(team, P) ==
    [id \in DOMAIN P |->
        IF (\E i \in 1 .. Len(team.players) : team.players[i] = id)
              /\ id \in DOMAIN team.formationPositions
        THEN [P[id] EXCEPT !.position = team.formationPositions[id],
                           !.targetPosition = team.formationPositions[id]]
        ELSE P[id]]

\* .slice(0, n)
slice(list, n) == SubSeq(list, 1, Min(n, Len(list)))

\* the formationPositions a setup function leaves: the slots it assigned, after
\* adjustFormationWidth
placed(slots) ==
    [id \in { slot[1] : slot \in slots } |->
        adjustFormationWidth((CHOOSE slot \in slots : slot[1] = id)[2])]

\* the slot of the goalkeeper, the same in every setup function
goalkeeperSlot(team, P, baseX, direction) ==
    LET gks == RoleIds(team, P, "GK")
    IN  IF Len(gks) >= 1 THEN { <<gks[1], Pos(baseX - 20 * direction, 50)>> } ELSE {}

\* the slots of a line of n players at x, the i-th at ys[i], when the line is full
lineSlots(ids, n, x, ys) ==
    IF Len(ids) >= n THEN { <<ids[i], Pos(x, ys[i])>> : i \in 1 .. n } ELSE {}

\* TeamEntity.setup433Formation
setup433Formation(team, P, isHome) ==
    LET baseX == IF isHome THEN 30 ELSE 70
        direction == IF isHome THEN 1 ELSE -1
        defenders == slice(RoleIds(team, P, "DEF"), 4)
        midfielders == slice(RoleIds(team, P, "MID"), 3)
        forwards == slice(RoleIds(team, P, "FWD"), 3)
    IN  placed(goalkeeperSlot(team, P, baseX, direction)
               \cup lineSlots(defenders, 4, baseX - 10 * direction, <<20, 40, 60, 80>>)
               \cup lineSlots(midfielders, 3, baseX, <<30, 50, 70>>)
               \cup lineSlots(forwards, 3, baseX + 15 * direction, <<25, 50, 75>>))

\* TeamEntity.setup4231Formation
setup4231Formation(team, P, isHome) ==
    LET baseX == IF isHome THEN 30 ELSE 70
        direction == IF isHome THEN 1 ELSE -1
        defenders == slice(RoleIds(team, P, "DEF"), 4)
        midfielders == slice(RoleIds(team, P, "MID"), 5)
        forwards == slice(RoleIds(team, P, "FWD"), 1)
    IN  placed(goalkeeperSlot(team, P, baseX, direction)
               \cup lineSlots(defenders, 4, baseX - 10 * direction, <<20, 40, 60, 80>>)
               \cup lineSlots(midfielders, 2, baseX - 5 * direction, <<35, 65>>)
               \cup (IF Len(midfielders) >= 5
                     THEN lineSlots(SubSeq(midfielders, 3, 5), 3, baseX + 5 * direction,
                                    <<30, 50, 70>>)
                     ELSE {})
               \cup lineSlots(forwards, 1, baseX + 15 * direction, <<50>>))

\* TeamEntity.setup352Formation
setup352Formation(team, P, isHome) ==
    LET baseX == IF isHome THEN 30 ELSE 70
        direction == IF isHome THEN 1 ELSE -1
        defenders == slice(RoleIds(team, P, "DEF"), 3)
        midfielders == slice(RoleIds(team, P, "MID"), 5)
        forwards == slice(RoleIds(team, P, "FWD"), 2)
    IN  placed(goalkeeperSlot(team, P, baseX, direction)
               \cup lineSlots(defenders, 3, baseX - 10 * direction, <<30, 50, 70>>)
               \cup (IF Len(midfielders) >= 5
                     THEN lineSlots(midfielders, 2, baseX - 5 * direction, <<15, 85>>)
                          \cup lineSlots(SubSeq(midfielders, 3, 5), 3, baseX, <<30, 50, 70>>)
                     ELSE {})
               \cup lineSlots(forwards, 2, baseX + 15 * direction, <<35, 65>>))

\* TeamEntity.setup532Formation
setup532Formation(team, P, isHome) ==
    LET baseX == IF isHome THEN 30 ELSE 70
        direction == IF isHome THEN 1 ELSE -1
        defenders == slice(RoleIds(team, P, "DEF"), 5)
        midfielders == slice(RoleIds(team, P, "MID"), 3)
        forwards == slice(RoleIds(team, P, "FWD"), 2)
    IN  placed(goalkeeperSlot(team, P, baseX, direction)
               \cup (IF Len(defenders) >= 5
                     THEN lineSlots(defenders, 3, baseX - 10 * direction, <<30, 50, 70>>)
                          \cup lineSlots(SubSeq(defenders, 4, 5), 2, baseX - 5 * direction,
                                         <<15, 85>>)
                     ELSE {})
               \cup lineSlots(midfielders, 3, baseX, <<30, 50, 70>>)
               \cup lineSlots(forwards, 2, baseX + 15 * direction, <<35, 65>>))

\* TeamEntity.getAvailablePlayers, as the roster of a team
getAvailablePlayers(team, P) ==
    [team EXCEPT !.players = SelectSeq(@, LAMBDA id : ~P[id].injured /\ ~P[id].redCard)]

\* TeamEntity.setupFormation(isHome), up to resetPositions: the formationPositions
\* it leaves for the formation of the team
setupFormation(team, P, formation, isHome) ==
    LET t == getAvailablePlayers(team, P)
    IN  CASE formation = "4-4-2" -> setup442Formation(t, P, isHome)
          [] formation = "4-3-3" -> setup433Formation(t, P, isHome)
          [] formation = "4-2-3-1" -> setup4231Formation(t, P, isHome)
          [] formation = "3-5-2" -> setup352Formation(t, P, isHome)
          [] formation = "5-3-2" -> setup532Formation(t, P, isHome)
          [] OTHER -> <<>>

\* TeamEntity.changeFormation(formation, isHome): the team and the players after
\* setupFormation and the resetPositions it ends with
changeFormation(team, P, formation, isHome) ==
    LET t == [team EXCEPT !.formationPositions = setupFormation(team, P, formation, isHome)]
    IN  [team |-> t, players |-> resetPositions(t, P)]

resetBothTeams(P) == resetPositions(awayTeam, resetPositions(homeTeam, P))

----------------------------------------------------------------------------
(* PlayerEntity *)

\* PlayerEntity.setTarget: the target clamped into [5,95] x [5,95]
setTarget(target) == Pos(Max(5, Min(95, target.x)), Max(5, Min(95, target.y)))

\* a fatigue update that forgot the cap at 1
updateFatigueNoCap(fatigue, gameSpeed, stamina) == fatigue + gameSpeed \div stamina

\* PlayerEntity.update, "Update fatigue": fatigue += 0.001 * gameSpeed * (1 / stamina),
\* capped at 1; fatigue in 1/10000 and gameSpeed in tenths
updateFatigue(fatigue, gameSpeed, stamina) ==
    LET f == fatigue + gameSpeed \div stamina
    IN  IF f > FatigueOne THEN FatigueOne ELSE f

----------------------------------------------------------------------------
(* FormationSystem *)

\* FormationSystem.calculateAdjustedPosition
calculateAdjustedPosition(basePosition, ballPosition, role, isHome, dials) ==
    LET defensiveShift == (dials.defensiveLineHeight - 5) * 3
        x1 == IF role \in {"DEF", "MID"}
              THEN basePosition.x + (IF isHome THEN defensiveShift ELSE -defensiveShift)
              ELSE basePosition.x
        y1 == IF basePosition.y < 50 THEN basePosition.y - (dials.width - 5) * 3
              ELSE IF basePosition.y > 50 THEN basePosition.y + (dials.width - 5) * 3
              ELSE basePosition.y
        ballOnOurSide == (isHome /\ ballPosition.x < 50) \/ (~isHome /\ ballPosition.x > 50)
        x2 == IF ballOnOurSide
              THEN x1 + (IF isHome THEN -dials.compactness ELSE dials.compactness)
              ELSE x1
        ballSideAttraction == Min(15, Scale(Abs(ballPosition.y - 50), 3, 10))
        y2 == IF (ballPosition.y < 50 /\ y1 < 50) \/ (ballPosition.y > 50 /\ y1 > 50)
              THEN y1 + (IF ballPosition.y > 50 THEN 1 ELSE -1) * ballSideAttraction
              ELSE y1
    IN  Pos(Max(10, Min(90, x2)), Max(10, Min(90, y2)))

----------------------------------------------------------------------------
(* BallEntity *)

\* BallEntity.keepInBounds
keepInBounds(b) ==
    LET bx == IF b.position.x < 0
              THEN [b EXCEPT !.position.x = 0, !.velocity.x = Scale(-b.velocity.x, 1, 2)]
              ELSE IF b.position.x > PitchMax
              THEN [b EXCEPT !.position.x = PitchMax, !.velocity.x = Scale(-b.velocity.x, 1, 2)]
              ELSE b
    IN  IF bx.position.y < 0
        THEN [bx EXCEPT !.position.y = 0, !.velocity.y = Scale(-bx.velocity.y, 1, 2)]
        ELSE IF bx.position.y > PitchMax
        THEN [bx EXCEPT !.position.y = PitchMax, !.velocity.y = Scale(-bx.velocity.y, 1, 2)]
        ELSE bx

\* BallEntity.update(gameSpeed), called with the tick's scaledDelta
ballUpdate(b, P, gameSpeed) ==
    IF b.possessor # NoPlayer
    THEN [b EXCEPT !.position = P[b.possessor].position]
    ELSE IF b.velocity.x # 0 \/ b.velocity.y # 0
    THEN keepInBounds(
            [b EXCEPT !.position = Pos(b.position.x + b.velocity.x * gameSpeed,
                                       b.position.y + b.velocity.y * gameSpeed),
                      !.velocity = Pos(Scale(b.velocity.x, 9, 10), Scale(b.velocity.y, 9, 10))])
    ELSE b

\* BallEntity.setPossessor
setPossessor(b, P, player) ==
    IF player # NoPlayer
    THEN [b EXCEPT !.possessor = player,
                   !.lastTouchTeam = P[player].team,
                   !.velocity = Pos(0, 0)]
    ELSE [b EXCEPT !.possessor = NoPlayer]

\* BallEntity.kick, not lofted
kick(b, velocity) == [b EXCEPT !.possessor = NoPlayer, !.velocity = velocity]

NewBall == [position |-> Center, velocity |-> Pos(0, 0), possessor |-> NoPlayer,
            lastTouchTeam |-> "home"]

----------------------------------------------------------------------------
(* MatchRules *)

\* a throw-in that goes to the side that last touched the ball
throwInTeamLastTouch(b) == b.lastTouchTeam

\* MatchRules.isBallOutOfBounds, the side a throw-in goes to
throwInTeam(b) == OtherSide(b.lastTouchTeam)

\* a corner always taken from the flag at y = 0
cornerSpotAlwaysZero(pos) == Pos(IF pos.x <= 0 THEN 0 ELSE 100, 0)

\* MatchRules.isBallOutOfBounds, the flag a corner is taken from
cornerSpot(pos) == Pos(IF pos.x <= 0 THEN 0 ELSE 100, IF pos.y < 50 THEN 0 ELSE 100)

\* MatchRules.isBallOutOfBounds
isBallOutOfBounds(b) ==
    LET pos == b.position
    IN  IF pos.y <= 0 \/ pos.y >= 100
        THEN [isOut |-> TRUE, type |-> "throwin", team |-> throwInTeam(b),
              position |-> Pos(pos.x, IF pos.y <= 0 THEN 0 ELSE 100)]
        ELSE IF pos.x <= 0
        THEN IF b.lastTouchTeam = "home"
             THEN [isOut |-> TRUE, type |-> "corner", team |-> "away",
                   position |-> cornerSpot(pos)]
             ELSE [isOut |-> TRUE, type |-> "goalkick", team |-> "home",
                   position |-> Pos(5, 50)]
        ELSE IF pos.x >= 100
        THEN IF b.lastTouchTeam = "away"
             THEN [isOut |-> TRUE, type |-> "corner", team |-> "home",
                   position |-> cornerSpot(pos)]
             ELSE [isOut |-> TRUE, type |-> "goalkick", team |-> "away",
                   position |-> Pos(95, 50)]
        ELSE [isOut |-> FALSE, type |-> "none", team |-> "none", position |-> NullPosition]

\* an isGoalScored that takes the whole goal width on each side of the centre
isGoalScoredFullWidth(b) ==
    LET pos == b.position
        inMouth == pos.y >= GoalCenterY - GoalWidth /\ pos.y <= GoalCenterY + GoalWidth
    IN  IF pos.x <= 0 /\ inMouth THEN [isGoal |-> TRUE, team |-> "away"]
        ELSE IF pos.x >= 100 /\ inMouth THEN [isGoal |-> TRUE, team |-> "home"]
        ELSE [isGoal |-> FALSE, team |-> "none"]

\* MatchRules.isGoalScored; the band is goalCenterY -+ goalWidth / 2
isGoalScored(b) ==
    LET pos == b.position
        inMouth == 2 * pos.y >= 2 * GoalCenterY - GoalWidth
                   /\ 2 * pos.y <= 2 * GoalCenterY + GoalWidth
    IN  IF pos.x <= 0 /\ inMouth THEN [isGoal |-> TRUE, team |-> "away"]
        ELSE IF pos.x >= 100 /\ inMouth THEN [isGoal |-> TRUE, team |-> "home"]
        ELSE [isGoal |-> FALSE, team |-> "none"]

----------------------------------------------------------------------------
(* OffsideRule *)

\* the order of the players array: the home roster, then the away roster
playersInOrder(P) ==
    SelectSeq(<<1, 2, 3, 11, 12, 13>>, LAMBDA id : id \in DOMAIN P)

\* .filter(DEF or GK).map(position.x).sort(...) over the players of a side
defendersPositionsX(P, side, ascending) ==
    LET ids == SelectSeq(playersInOrder(P),
                         LAMBDA id : P[id].team = side /\ P[id].role \in {"DEF", "GK"})
        xs == [i \in 1 .. Len(ids) |-> P[ids[i]].position.x]
    IN  IF ascending THEN SortSeq(xs, LAMBDA a, b : a < b)
        ELSE SortSeq(xs, LAMBDA a, b : a > b)

\* OffsideRule.calculateOffsideLine
calculateOffsideLine(P) ==
    LET homeDefendersPositionsX == defendersPositionsX(P, "away", TRUE)
        awayDefendersPositionsX == defendersPositionsX(P, "home", FALSE)
    IN  [home |-> IF Len(homeDefendersPositionsX) >= 2 THEN homeDefendersPositionsX[2] ELSE 40,
         away |-> IF Len(awayDefendersPositionsX) >= 2 THEN awayDefendersPositionsX[2] ELSE 60]

\* OffsideRule.isPlayerOffside, the opponents being the players of the other side
isPlayerOffside(player, P, b) ==
    IF P[player].role = "GK" THEN FALSE
    ELSE LET isHome == P[player].team = "home"
             xs == defendersPositionsX(P, OtherSide(P[player].team), isHome)
         IN  IF Len(xs) < 2 THEN FALSE
             ELSE LET offsideLine == xs[2]
                      isAheadOfOffsideLine == IF isHome THEN P[player].position.x > offsideLine
                                              ELSE P[player].position.x < offsideLine
                      isAheadOfBall == IF isHome THEN P[player].position.x > b.position.x
                                       ELSE P[player].position.x < b.position.x
                  IN  isAheadOfOffsideLine /\ isAheadOfBall

----------------------------------------------------------------------------
(* Team behaviors *)

\* initialTeamTacticalState: the behavior and the six tactical parameters
initialTeamTacticalState ==
    [currentBehavior |-> "midBlock", defensiveLineHeight |-> 5, pressingIntensity |-> 5,
     width |-> 5, verticalCompactness |-> 5, passingStyle |-> "mixed", tempo |-> 5]

\* analyzeTacticalSituation(team, opposition, matchState, ball) for the team with
\* the id and tactics of team
analyzeTacticalSituation(team, ms, b) ==
    LET scoreLineDifference == IF team.id = "home" THEN ms.score.home - ms.score.away
                               ELSE ms.score.away - ms.score.home
        matchTimeRemaining == 90 - ms.gameTime
        isWinning == scoreLineDifference > 0
        isLosing == scoreLineDifference < 0
        ballInOurHalf == \/ team.id = "home" /\ b.position.x < 50
                         \/ team.id = "away" /\ b.position.x > 50
        hasSetPiece == ms.setpiece.type # "none"
        isOurSetPiece == ms.setpiece.team = team.id
    IN  IF hasSetPiece
        THEN IF isOurSetPiece THEN "setpieceAttack" ELSE "setpieceDefense"
        ELSE IF matchTimeRemaining < 10
        THEN IF isWinning THEN "parkTheBus"
             ELSE IF isLosing THEN "allOutAttack" ELSE "midBlock"
        ELSE IF b.possessor # NoPlayer /\ b.lastTouchTeam = team.id
        THEN CASE team.style = "possession" -> "possession"
               [] team.style = "counter" ->
                    IF ballInOurHalf THEN "counterAttack" ELSE "possession"
               [] team.style \in {"direct", "wing"} -> "widePlay"
               [] team.style = "pressing" ->
                    IF isLosing THEN "allOutAttack" ELSE "possession"
        ELSE CASE team.defensiveStyle = "highpress" -> "highPress"
               [] team.defensiveStyle = "midblock" -> "midBlock"
               [] team.defensiveStyle = "lowblock" -> "lowBlock"
               [] team.defensiveStyle \in {"manmarking", "zonalmarking"} ->
                    IF ballInOurHalf THEN "midBlock" ELSE "lowBlock"

\* applyTeamBehavior(team, behaviorType, currentState, matchState)
applyTeamBehavior(behaviorType, currentState) ==
    LET newState == [currentState EXCEPT !.currentBehavior = behaviorType]
    IN  CASE behaviorType = "highPress" ->
               [newState EXCEPT !.defensiveLineHeight = 8, !.pressingIntensity = 9,
                                !.verticalCompactness = 7, !.width = 7,
                                !.passingStyle = "mixed", !.tempo = 7]
          [] behaviorType = "midBlock" ->
               [newState EXCEPT !.defensiveLineHeight = 5, !.pressingIntensity = 5,
                                !.verticalCompactness = 8, !.width = 6]
          [] behaviorType = "lowBlock" ->
               [newState EXCEPT !.defensiveLineHeight = 2, !.pressingIntensity = 3,
                                !.verticalCompactness = 9, !.width = 5]
          [] behaviorType = "possession" ->
               [newState EXCEPT !.defensiveLineHeight = 6, !.passingStyle = "short",
                                !.tempo = 4, !.width = 7]
          [] behaviorType = "counterAttack" ->
               [newState EXCEPT !.defensiveLineHeight = 4, !.passingStyle = "long",
                                !.tempo = 8, !.width = 4]
          [] behaviorType = "widePlay" ->
               [newState EXCEPT !.width = 9, !.tempo = 6, !.passingStyle = "mixed"]
          [] behaviorType = "narrowPlay" ->
               [newState EXCEPT !.width = 3, !.verticalCompactness = 7,
                                !.passingStyle = "short"]
          [] behaviorType = "setpieceAttack" ->
               [newState EXCEPT !.pressingIntensity = 2]
          [] behaviorType = "setpieceDefense" ->
               [newState EXCEPT !.pressingIntensity = 7, !.verticalCompactness = 9]
          [] behaviorType = "parkTheBus" ->
               [newState EXCEPT !.defensiveLineHeight = 1, !.pressingIntensity = 2,
                                !.verticalCompactness = 10, !.width = 4, !.tempo = 2,
                                !.passingStyle = "long"]
          [] behaviorType = "allOutAttack" ->
               [newState EXCEPT !.defensiveLineHeight = 8, !.pressingIntensity = 8,
                                !.verticalCompactness = 3, !.width = 8, !.tempo = 9,
                                !.passingStyle = "mixed"]

\* updateTeamBehavior(team, opposition, matchState, ball, currentState): the
\* behavior and the six parameters of the state it returns
updateTeamBehavior(team, ms, b, currentState) ==
    LET optimalBehavior == analyzeTacticalSituation(team, ms, b)
    IN  IF optimalBehavior # currentState.currentBehavior
        THEN applyTeamBehavior(optimalBehavior, currentState)
        ELSE currentState

\* updateTeamBehaviors(team, opposition, matchState, ball, deltaTime): the atom of
\* team.id after jotaiStore.set(tacticalStateAtom, newState)
updateTeamBehaviors(team, ms, b, atoms) ==
    [atoms EXCEPT ![team.id] = updateTeamBehavior(team, ms, b, atoms[team.id])]

\* MatchEngine.updateTeamBehaviors: the home team, then the away team
updateBothTeamBehaviors(td, ms, b, atoms) ==
    updateTeamBehaviors(td.away, ms, b, updateTeamBehaviors(td.home, ms, b, atoms))

\* MatchEngine.updatePlayerAI, "Get the team tactical state if available": the
\* teamTacticalState put into the context of a player of the team ownTeam
playerContext(ms, ownTeam) ==
    IF ownTeam.id \in DOMAIN ms.tacticalState
    THEN [given |-> TRUE, teamTacticalState |-> ms.tacticalState[ownTeam.id]]
    ELSE [given |-> FALSE]

\* [...list].sort((a, b) => key(b) - key(a)): descending by key, key[i] the key of
\* list[i]; the sort of the runtime is stable, elements of equal key keep their order
sortDescending(list, key) ==
    LET n == Len(list)
        before(j, i) == \/ key[j] > key[i]
                        \/ key[j] = key[i] /\ j < i
        rank(i) == Cardinality({ j \in 1..n : before(j, i) }) + 1
    IN  [r \in 1..n |-> list[CHOOSE i \in 1..n : rank(i) = r]]

\* the Map a loop of assignments.set(key, value) builds over pairs
mapOfPairs(pairs) ==
    LET built[i \in 0 .. Len(pairs)] ==
            IF i = 0 THEN <<>>
            ELSE (pairs[i].key :> pairs[i].value) @@ built[i - 1]
    IN  built[Len(pairs)]

\* the pairing in the order the two lists are given, without the two sorts
createMarkingAssignmentsUnsorted(defenders, dangerousOpponents) ==
    LET n == IF Len(defenders) < Len(dangerousOpponents)
             THEN Len(defenders) ELSE Len(dangerousOpponents)
    IN  mapOfPairs([i \in 1..n |-> [key |-> dangerousOpponents[i].id,
                                    value |-> defenders[i].id]])

\* createMarkingAssignments(defenders, dangerousOpponents): opponent id -> marker id
createMarkingAssignments(defenders, dangerousOpponents) ==
    LET sortedDefenders ==
            sortDescending(defenders,
                           [i \in DOMAIN defenders |-> defenders[i].attributes.tackling])
        sortedAttackers ==
            sortDescending(dangerousOpponents,
                           [i \in DOMAIN dangerousOpponents |->
                               dangerousOpponents[i].attributes.finishing
                               + dangerousOpponents[i].attributes.dribbling])
        n == IF Len(sortedDefenders) < Len(sortedAttackers)
             THEN Len(sortedDefenders) ELSE Len(sortedAttackers)
    IN  mapOfPairs([i \in 1..n |-> [key |-> sortedAttackers[i].id,
                                    value |-> sortedDefenders[i].id]])

----------------------------------------------------------------------------
(* Behavior tree *)

NodeResults == {"success", "failure", "running"}

\* selectorNodeAtom(nodeId, children): one evaluation, from the stored index of
\* the last running child; childResults[i] is what runNode(children[i]) returns
\* in this evaluation, the children counted from 0 as in the source
selectorNode(index, childResults) ==
    LET n == Len(childResults)
        run[i \in 0..n] ==
            IF i >= n THEN [value |-> "failure", lastRunningIndex |-> 0]
            ELSE IF childResults[i + 1] = "running"
                 THEN [value |-> "running", lastRunningIndex |-> i]
            ELSE IF childResults[i + 1] = "success"
                 THEN [value |-> "success", lastRunningIndex |-> 0]
            ELSE run[i + 1]
    IN  run[index]

----------------------------------------------------------------------------
(* PlayerEntity: decisions *)

\* the fields a new PlayerEntity starts with, null being NoPlayer or "none"
NewPlayerFields ==
    [fatigue |-> 0, hasBall |-> FALSE, isMarking |-> NoPlayer, isBeingMarkedBy |-> NoPlayer,
     redCard |-> FALSE, injured |-> FALSE, lastAction |-> "none", decisionCooldown |-> 0]

\* the square of Entity.distanceTo between two positions
distanceSquared(a, b) == (a.x - b.x) * (a.x - b.x) + (a.y - b.y) * (a.y - b.y)

\* sqrt(b2) - sqrt(a2) > k for squares of distances a2, b2 and an integer k
rootDifferenceAbove(b2, a2, k) ==
    IF k >= 0
    THEN LET r == b2 - a2 - k * k
         IN  IF k = 0 THEN r > 0 ELSE r > 0 /\ r * r > 4 * k * k * a2
    ELSE LET m == 0 - k
             r == a2 - b2 - m * m
         IN  ~(r >= 0 /\ r * r >= 4 * m * m * b2)

\* the players array filtered to a side, in array order
playersOfSide(P, side) == SelectSeq(playersInOrder(P), LAMBDA id : P[id].team = side)

\* PlayerEntity.update on a player that carries the decision fields: fatigue, the
\* position physics reports, the decision cooldown and hasBall
playerUpdate(player, id, gameSpeed, b, physics) ==
    [player EXCEPT !.fatigue = updateFatigue(@, gameSpeed, player.stamina),
                   !.position = physics,
                   !.decisionCooldown = IF @ > 0 THEN @ - gameSpeed ELSE @,
                   !.hasBall = (b.possessor = id)]

\* PlayerEntity.isInShootingRange
isInShootingRange(player) ==
    LET goalX == IF player.team = "home" THEN 90 ELSE 10
    IN  Abs(player.position.x - goalX) < 25 /\ Abs(player.position.y - 50) < 20

\* PlayerEntity.findBestPassTarget, whether it finds a target: a teammate other
\* than the player, at most 30 away, with a score above -1; the angle test on
\* the opponents (Math.atan2) is the outcome blocked
hasPassTarget(P, id, blocked) ==
    \E mate \in DOMAIN P :
        /\ P[mate].team = P[id].team
        /\ mate # id
        /\ distanceSquared(P[id].position, P[mate].position) <= 30 * 30
        /\ ~blocked
        /\ LET bonus == (IF P[mate].role = "GK" THEN -5 ELSE 0)
                         + (IF P[mate].role = "FWD" THEN 2 ELSE 0)
                         + (IF (IF P[id].team = "home"
                                THEN P[mate].position.x > P[id].position.x
                                ELSE P[mate].position.x < P[id].position.x) THEN 3 ELSE 0)
           IN  \* 10 - distance * 0.2 + bonus > -1
               distanceSquared(P[id].position, P[mate].position)
                   < 25 * (11 + bonus) * (11 + bonus)

\* PlayerEntity.decideWithBall: the action it returns and stores; first and second
\* are the outcomes of its two Math.random() comparisons
decideWithBall(P, id, rnd) ==
    LET opponents == { o \in DOMAIN P : P[o].team # P[id].team }
        underPressure == \E o \in opponents :
                            distanceSquared(P[id].position, P[o].position) < 10 * 10
        passFirst == 8 * P[id].attributes.passing > 6 * P[id].attributes.dribbling
    IN  IF isInShootingRange(P[id]) /\ rnd.first THEN "shoot"
        ELSE IF underPressure /\ passFirst /\ hasPassTarget(P, id, rnd.blocked) THEN "pass"
        ELSE IF underPressure /\ rnd.second THEN "dribble"
        ELSE "pass"

\* PlayerEntity.decideOffensiveSupport
decideOffensiveSupport(P, id, b, rnd) ==
    IF distanceSquared(P[id].position, b.position) < 20 * 20 THEN "supportNear"
    ELSE IF rnd.first THEN "makeRun"
    ELSE "maintainFormation"

\* the marking score of opponent a is above that of opponent b:
\* 10 - distance * 0.5, + 3 for a forward, + 5 for the ball possessor
markingScoreAbove(P, id, a, b) ==
    LET bonus(o) == (IF P[o].role = "FWD" THEN 3 ELSE 0) + (IF P[o].hasBall THEN 5 ELSE 0)
    IN  rootDifferenceAbove(distanceSquared(P[id].position, P[b].position),
                            distanceSquared(P[id].position, P[a].position),
                            2 * (bonus(b) - bonus(a)))

\* PlayerEntity.findNearbyPlayerToMark(opponents): the best unmarked opponent
\* within the marking distance, the first of the array among equals, recorded as
\* marked by the player
findNearbyPlayerToMark(P, id) ==
    LET opponents == playersOfSide(P, OtherSide(P[id].team))
        maxMarkingDistance == IF P[id].role = "DEF" THEN 20 ELSE 15
        candidates == SelectSeq(opponents, LAMBDA o :
                         /\ distanceSquared(P[id].position, P[o].position)
                               <= maxMarkingDistance * maxMarkingDistance
                         /\ P[o].isBeingMarkedBy = NoPlayer)
        best[i \in 0 .. Len(candidates)] ==
            IF i = 0 THEN NoPlayer
            ELSE IF best[i - 1] = NoPlayer THEN candidates[i]
            ELSE IF markingScoreAbove(P, id, candidates[i], best[i - 1]) THEN candidates[i]
            ELSE best[i - 1]
        bestTarget == best[Len(candidates)]
    IN  IF bestTarget = NoPlayer
        THEN [players |-> P, target |-> NoPlayer]
        ELSE [players |-> [P EXCEPT ![bestTarget].isBeingMarkedBy = id],
              target |-> bestTarget]

\* PlayerEntity.decideDefensiveAction: the players after it and the action it
\* returns; first is the outcome of Math.random() < tackleChance
decideDefensiveAction(P, id, b, rnd) ==
    IF b.possessor = NoPlayer
    THEN [players |-> P,
          decision |-> IF distanceSquared(P[id].position, b.position) < 15 * 15
                       THEN "chaseBall" ELSE "maintainDefensivePosition"]
    ELSE LET d2 == distanceSquared(P[id].position, P[b.possessor].position)
         IN  IF d2 < 10 * 10 /\ (rnd.first \/ d2 < 5 * 5)
             THEN [players |-> P, decision |-> "pressBall"]
             ELSE LET found == findNearbyPlayerToMark(P, id)
                  IN  IF found.target # NoPlayer
                      THEN [players |-> [found.players EXCEPT ![id].isMarking = found.target],
                            decision |-> "markPlayer"]
                      ELSE [players |-> found.players,
                            decision |-> "maintainDefensivePosition"]

\* a makeDecision that forgot its cooldown guard: every call decides anew
makeDecisionNoCooldown(P, id, b, rnd) ==
    LET P1 == [P EXCEPT ![id].decisionCooldown = DecisionCooldown]
        made == IF P[id].hasBall
                THEN [players |-> P1, decision |-> decideWithBall(P1, id, rnd)]
                ELSE IF P[id].team = b.lastTouchTeam
                THEN [players |-> P1, decision |-> decideOffensiveSupport(P1, id, b, rnd)]
                ELSE decideDefensiveAction(P1, id, b, rnd)
    IN  [players |-> [made.players EXCEPT ![id].lastAction = made.decision],
         decision |-> made.decision]

\* PlayerEntity.makeDecision: the players after it and the action it returns; each
\* decide function stores the action it returns in lastAction
makeDecision(P, id, b, rnd) ==
    IF P[id].decisionCooldown > 0
    THEN [players |-> P,
          decision |-> IF P[id].lastAction = "none" THEN "wait" ELSE P[id].lastAction]
    ELSE LET P1 == [P EXCEPT ![id].decisionCooldown = DecisionCooldown]
             made == IF P[id].hasBall
                     THEN [players |-> P1, decision |-> decideWithBall(P1, id, rnd)]
                     ELSE IF P[id].team = b.lastTouchTeam
                     THEN [players |-> P1,
                           decision |-> decideOffensiveSupport(P1, id, b, rnd)]
                     ELSE decideDefensiveAction(P1, id, b, rnd)
         IN  [players |-> [made.players EXCEPT ![id].lastAction = made.decision],
              decision |-> made.decision]

\* PlayerEntity.updateAI, "Apply the decision"
applyDecision(P, id, b, decision, rnd) ==
    CASE decision = "chaseBall" ->
           [P EXCEPT ![id].targetPosition = setTarget(b.position)]
      [] decision = "markPlayer" ->
           LET found == findNearbyPlayerToMark(P, id)
           IN  IF found.target # NoPlayer
               THEN [found.players EXCEPT
                        ![id].targetPosition = setTarget(P[found.target].position)]
               ELSE found.players
      [] decision = "makeRun" ->
           [P EXCEPT ![id].targetPosition =
               setTarget(Pos(P[id].position.x + (IF P[id].team = "home" THEN 15 ELSE -15),
                             P[id].position.y + (5 * rnd.u - 10)))]
      [] OTHER -> P

\* PlayerEntity.updateAI(context): the assigned player to mark, then the tactical
\* overrides, then makeDecision and its application; u is the Math.random() of
\* the offsets, in quarters
updateAI(P, id, b, context, rnd) ==
    IF context.playerToMark # NoPlayer
    THEN [P EXCEPT ![id].isMarking = context.playerToMark,
                   ![id].lastAction = "markPlayer",
                   ![id].targetPosition =
                       setTarget(Pos(P[context.playerToMark].position.x + (rnd.u - 2),
                                     P[context.playerToMark].position.y + (rnd.u - 2)))]
    ELSE LET tactical == context.teamTacticalState
         IN  IF context.given /\ tactical.currentBehavior = "highPress"
                /\ tactical.pressingIntensity > 7
                /\ distanceSquared(P[id].position, b.position) < 25 * 25
             THEN [P EXCEPT ![id].lastAction = "chaseBall",
                            ![id].targetPosition = setTarget(b.position)]
             ELSE IF context.given /\ tactical.currentBehavior \in {"lowBlock", "parkTheBus"}
                     /\ P[id].role \in {"DEF", "MID"}
             THEN [P EXCEPT ![id].lastAction = "maintainDefensivePosition"]
             ELSE IF context.given /\ tactical.currentBehavior = "counterAttack"
                     /\ b.lastTouchTeam = P[id].team
                     /\ (P[id].role = "FWD" \/ (P[id].role = "MID" /\ rnd.second))
             THEN [P EXCEPT ![id].lastAction = "makeRun"]
             ELSE LET made == makeDecision(P, id, b, rnd)
                  IN  applyDecision(made.players, id, b, made.decision, rnd)

\* hasBallConditionAtom, teamHasBallConditionAtom, isInShootingRangeConditionAtom
\* and isUnderPressureConditionAtom, as evaluateCondition reads them
hasBallCondition(P, id, b) == P[id].hasBall

teamHasBallCondition(P, id, b) ==
    b.possessor # NoPlayer /\ P[b.possessor].team = P[id].team

isInShootingRangeCondition(P, id, b) ==
    LET goalX == IF P[id].team = "home" THEN 90 ELSE 10
    IN  Abs(P[id].position.x - goalX) < 25 /\ Abs(P[id].position.y - 50) < 20

isUnderPressureCondition(P, id, b) ==
    \E o \in DOMAIN P :
        /\ P[o].team # P[id].team
        /\ distanceSquared(P[id].position, P[o].position) < 10 * 10

\* shootActionAtom .. markPlayerActionAtom: an action node writes its name to
\* lastAction and returns 'success'
actionAtom(P, id, action) ==
    [players |-> [P EXCEPT ![id].lastAction = action], value |-> "success"]

\* createFieldPlayerBehaviorTree(): evaluateBehavior(player, context); an action of
\* a fallback chain runs on the players the failed action before it left
fallback(P, id, actions) ==
    LET run[i \in 1 .. Len(actions)] ==
            LET before == IF i = 1 THEN P ELSE run[i - 1].players
                done == actionAtom(before, id, actions[i])
            IN  IF i > 1 /\ run[i - 1].value # "failure" THEN run[i - 1]
                ELSE [players |-> done.players, value |-> done.value,
                      currentBehavior |-> actions[i]]
    IN  run[Len(actions)]

evaluateBehavior(P, id, b) ==
    IF hasBallCondition(P, id, b)
    THEN IF isInShootingRangeCondition(P, id, b) THEN fallback(P, id, <<"shoot">>)
         ELSE IF isUnderPressureCondition(P, id, b) THEN fallback(P, id, <<"pass">>)
         ELSE fallback(P, id, <<"dribble">>)
    ELSE IF teamHasBallCondition(P, id, b)
    THEN fallback(P, id, <<"makeRun", "supportNear", "maintainFormation">>)
    ELSE fallback(P, id, <<"chaseBall", "markPlayer", "pressBall",
                           "maintainDefensivePosition">>)

\* the formationParams of a new FormationSystem
initialFormationParams == [defensiveLineHeight |-> 5, width |-> 5, compactness |-> 5]

\* FormationSystem.updatePlayerPosition(player, team, ball, deltaTime)
updatePlayerPosition(P, id, team, b, formationParams) ==
    IF id \notin DOMAIN team.formationPositions THEN P
    ELSE [P EXCEPT ![id].targetPosition =
             setTarget(calculateAdjustedPosition(team.formationPositions[id], b.position,
                                                 P[id].role, P[id].team = "home",
                                                 formationParams))]

\* the body of the loop of MatchEngine.updatePlayerAI for one player: the context,
\* updateAI, updateFormationParameters and updatePlayerPosition; the tactical
\* states of the engine carry no marking assignment
updatePlayerAIOf(acc, id, ht, at, td, ms, b, rnd) ==
    LET P == acc.players
        ownTeam == IF P[id].team = "home" THEN ht ELSE at
        found == playerContext(ms, td[P[id].team])
        context == found @@ [playerToMark |-> NoPlayer]
        decided == updateAI(P, id, b, context, rnd[id])
        formationParams ==
            IF found.given
            THEN [defensiveLineHeight |-> found.teamTacticalState.defensiveLineHeight,
                  width |-> found.teamTacticalState.width,
                  compactness |-> found.teamTacticalState.verticalCompactness]
            ELSE acc.formationParams
    IN  [players |-> updatePlayerPosition(decided, id, ownTeam, b, formationParams),
         processed |-> Append(acc.processed, id),
         formationParams |-> formationParams]

\* an updatePlayerAI without "if (player.injured || player.redCard) continue"
updatePlayerAINoSkip(P, ht, at, td, ms, b, rnd) ==
    LET order == playersInOrder(P)
        loop[i \in 0 .. Len(order)] ==
            IF i = 0
            THEN [players |-> P, processed |-> <<>>, formationParams |-> initialFormationParams]
            ELSE updatePlayerAIOf(loop[i - 1], order[i], ht, at, td, ms, b, rnd)
    IN  loop[Len(order)]

\* MatchEngine.updatePlayerAI(deltaTime): the players after the loop over
\* this.players, and the players the loop did not skip, in the order of the loop
updatePlayerAI(P, ht, at, td, ms, b, rnd) ==
    LET order == playersInOrder(P)
        loop[i \in 0 .. Len(order)] ==
            IF i = 0
            THEN [players |-> P, processed |-> <<>>, formationParams |-> initialFormationParams]
            ELSE IF loop[i - 1].players[order[i]].injured
                    \/ loop[i - 1].players[order[i]].redCard
            THEN loop[i - 1]
            ELSE updatePlayerAIOf(loop[i - 1], order[i], ht, at, td, ms, b, rnd)
    IN  loop[Len(order)]

----------------------------------------------------------------------------
(* SubstitutionSystem *)

\* a PlayerEntity of the bench: the model's player record and its id
BenchPlayer(id, team, role) ==
    [id |-> id, team |-> team, role |-> role, position |-> RosterPosition(team),
     targetPosition |-> RosterPosition(team)]

\* a search of the bench that takes the first player, whatever the id
findIndexAnyPlayer(bench, id) == IF Len(bench) > 0 THEN 1 ELSE 0

\* the index of the first player of a bench with the id, 0 standing for -1
findIndex(bench, id) ==
    IF \E i \in 1 .. Len(bench) : bench[i].id = id
    THEN CHOOSE i \in 1 .. Len(bench) :
            /\ bench[i].id = id
            /\ \A j \in 1 .. i - 1 : bench[j].id # id
    ELSE 0

\* a makeSubstitution that forgot updatedPlayers[playerOutIndex] = playerIn: the
\* list it returns is the list it was given
updatedPlayersUnchanged(activePlayers, playerOut, playerIn) == activePlayers

\* updatedPlayers: the list with playerIn in the place of playerOut
updatedPlayers(activePlayers, playerOut, playerIn) ==
    [id \in (DOMAIN activePlayers \ {playerOut}) \cup {playerIn.id} |->
        IF id = playerIn.id
        THEN [f \in DOMAIN playerIn \ {"id"} |-> playerIn[f]]
        ELSE activePlayers[id]]

\* an updatedPlayers that drops playerOut and pushes playerIn at the end
updatedPlayersListAtEnd(list, activePlayers, request) ==
    Append(SelectSeq(list, LAMBDA id : id # request.playerOut), request.playerIn)

\* updatedPlayers as a list: the ids of activePlayers in list order, with the id
\* of playerIn at playerOutIndex, the first index of a player of the team of the
\* request with the id playerOut (0 standing for -1)
updatedPlayersList(list, activePlayers, request) ==
    LET isPlayerOut(i) == /\ list[i] \in DOMAIN activePlayers
                          /\ activePlayers[list[i]].team = request.team
                          /\ list[i] = request.playerOut
        playerOutIndex ==
            IF \E i \in 1 .. Len(list) : isPlayerOut(i)
            THEN CHOOSE i \in 1 .. Len(list) :
                    isPlayerOut(i) /\ \A j \in 1 .. i - 1 : ~isPlayerOut(j)
            ELSE 0
    IN  IF playerOutIndex = 0 THEN list
        ELSE [list EXCEPT ![playerOutIndex] = request.playerIn]

\* SubstitutionSystem.makeSubstitution(request, homeTeam, awayTeam, activePlayers):
\* what it returns and what it leaves in the bench and in the two teams
makeSubstitution(request, ht, at, activePlayers, benches) ==
    LET team == IF request.team = "home" THEN ht ELSE at
        bench == benches[request.team]
        found == /\ request.playerOut \in DOMAIN activePlayers
                 /\ activePlayers[request.playerOut].team = request.team
        playerInIndex == findIndex(bench, request.playerIn)
        unchanged == [benchPlayers |-> benches, home |-> ht, away |-> at,
                      players |-> activePlayers]
    IN  IF ~found
        THEN [success |-> FALSE,
              message |-> "Player to substitute out not found on the field"] @@ unchanged
        ELSE IF playerInIndex = 0
        THEN [success |-> FALSE,
              message |-> "Player to substitute in not found on the bench"] @@ unchanged
        ELSE LET playerOut == activePlayers[request.playerOut]
                 playerIn == [bench[playerInIndex] EXCEPT
                                !.position = playerOut.position,
                                !.targetPosition = playerOut.targetPosition]
                 newTeam == [team EXCEPT !.players =
                                [i \in 1 .. Len(team.players) |->
                                    IF team.players[i] = request.playerOut
                                    THEN playerIn.id ELSE team.players[i]]]
             IN  [success |-> TRUE, message |-> "Substitution made",
                  players |-> updatedPlayers(activePlayers, request.playerOut, playerIn),
                  benchPlayers |-> [benches EXCEPT ![request.team] =
                        [bench EXCEPT ![playerInIndex] =
                            [id |-> request.playerOut] @@ playerOut]],
                  home |-> IF request.team = "home" THEN newTeam ELSE ht,
                  away |-> IF request.team = "home" THEN at ELSE newTeam]

----------------------------------------------------------------------------
(* MatchState *)

Event(type, team, time) == [type |-> type, teamId |-> team, time |-> time]

NewMatchState(speed) ==
    [gameState |-> "idle", gameSpeed |-> speed, gameTime |-> 0, half |-> 1,
     score |-> [home |-> 0, away |-> 0], gameEvents |-> <<>>, setpiece |-> NoSetpiece,
     stoppageTime |-> 0, stoppageTimeAdded |-> 0, tacticalState |-> <<>>]

\* MatchState.reset: everything but gameSpeed
reset(ms) == NewMatchState(ms.gameSpeed)

\* the score after MatchState.addEvent's switch on the event type
addEventScore(score, event) ==
    IF event.type = "goal" /\ event.teamId \in Sides
    THEN [score EXCEPT ![event.teamId] = @ + 1]
    ELSE score

\* an addEvent that puts the new event in front of the log
addEventInFront(ms, event) ==
    [ms EXCEPT !.gameEvents = <<event>> \o @,
               !.score = addEventScore(@, event)]

\* MatchState.addEvent
addEvent(ms, event) ==
    [ms EXCEPT !.gameEvents = Append(@, event),
               !.score = addEventScore(@, event)]

\* MatchState.isTimeForHalfEnd
isTimeForHalfEnd(ms) ==
    LET halfDuration == HalfDuration
        currentHalfTime == ms.gameTime % halfDuration
    IN  IF ms.half = 1 \/ ms.half = 3
        THEN currentHalfTime >= halfDuration /\ ms.stoppageTime >= ms.stoppageTimeAdded
        ELSE IF ms.half = 2 \/ ms.half = 4
        THEN currentHalfTime >= halfDuration /\ ms.stoppageTime >= ms.stoppageTimeAdded
        ELSE FALSE

\* the side MatchState.advanceToNextHalf gives the kickoff of the half it enters
advanceKickoffTeam(half) == IF half = 2 THEN "away" ELSE "home"

\* MatchState.advanceToNextHalf
advanceToNextHalf(ms) ==
    IF ms.half < LastHalf
    THEN [ms EXCEPT !.half = @ + 1,
                    !.stoppageTime = 0,
                    !.stoppageTimeAdded = 0,
                    !.setpiece = [type |-> "kickoff",
                                  team |-> advanceKickoffTeam(ms.half + 1),
                                  position |-> Center]]
    ELSE ms

----------------------------------------------------------------------------
(* MatchEngine: the private handlers, over w = [ms, ball, players, timer] *)

World == [ms |-> matchState, ball |-> ball, players |-> players, timer |-> intervalId,
          timers |-> timers]

\* MatchEngine.stopGameLoop with the clearInterval left out: the handle is dropped,
\* the timer lives on
stopGameLoopKeepsTimer(w) == [w EXCEPT !.timer = FALSE]

\* MatchEngine.stopGameLoop
stopGameLoop(w) ==
    IF w.timer THEN [w EXCEPT !.timer = FALSE, !.timers = @ - 1] ELSE w

\* MatchEngine.startGameLoop: the timer of the handle is cleared, a new one is set
startGameLoop(w) ==
    LET w0 == IF w.timer THEN [w EXCEPT !.timers = @ - 1] ELSE w
    IN  [w0 EXCEPT !.timer = TRUE, !.timers = @ + 1]

\* the side MatchEngine.setupKickoff gives the kickoff of a half
kickoffTeamOfHalf(half) == IF half % 2 = 1 THEN "home" ELSE "away"

\* a kickoff that leaves the set-piece descriptor as it finds it
setupKickoffKeepsSetpiece(w) ==
    LET kickoffTeam == kickoffTeamOfHalf(w.ms.half)
        ms1 == addEvent(w.ms, Event("kickoff", kickoffTeam, w.ms.gameTime))
    IN  [w EXCEPT !.ball = setPossessor([w.ball EXCEPT !.position = Center], w.players, NoPlayer),
                  !.ms = ms1,
                  !.players = resetBothTeams(w.players)]

\* MatchEngine.setupKickoff
setupKickoff(w) ==
    LET kickoffTeam == kickoffTeamOfHalf(w.ms.half)
        ms1 == addEvent(w.ms, Event("kickoff", kickoffTeam, w.ms.gameTime))
    IN  [w EXCEPT !.ball = setPossessor([w.ball EXCEPT !.position = Center], w.players, NoPlayer),
                  !.ms = [ms1 EXCEPT !.setpiece = [type |-> "kickoff", team |-> kickoffTeam,
                                                   position |-> Center]],
                  !.players = resetBothTeams(w.players)]

\* MatchEngine.handleHalfEnd
handleHalfEnd(w) ==
    IF w.ms.half = 2 \/ w.ms.half = 4
    THEN stopGameLoop([w EXCEPT !.ms = addEvent([w.ms EXCEPT !.gameState = "fulltime"],
                                                Event("fulltime", "none", w.ms.gameTime))])
    ELSE LET ms1 == addEvent([w.ms EXCEPT !.gameState = "halftime"],
                             Event("halftime", "none", w.ms.gameTime))
         IN  setupKickoff([w EXCEPT !.ms = advanceToNextHalf(ms1)])

\* a handleBallOut that lost its guard: every call is taken for a new restart
noSameSetpiece(ms, type, team, position) == FALSE

\* the guard at the head of MatchEngine.handleBallOut: already handling this set-piece
sameSetpiece(ms, type, team, position) ==
    /\ ms.setpiece.type = type
    /\ ms.setpiece.team = team
    /\ ms.setpiece.position.x = position.x
    /\ ms.setpiece.position.y = position.y

\* MatchEngine.handleBallOut
handleBallOut(w, type, team, position) ==
    IF sameSetpiece(w.ms, type, team, position)
    THEN w
    ELSE LET ms1 == addEvent(w.ms, Event(type, team, w.ms.gameTime))
             b1 == setPossessor([w.ball EXCEPT !.position = position], w.players, NoPlayer)
         IN  [w EXCEPT !.ms = [ms1 EXCEPT !.setpiece = [type |-> type, team |-> team,
                                                        position |-> position]],
                       !.ball = [b1 EXCEPT !.velocity = Pos(0, 0)]]

\* MatchEngine.getRandomPlayerFromTeam: the players it can return; none when the
\* side has no player, and the caller then reads a field of undefined and throws
getRandomPlayerFromTeam(P, team, preferredRole) ==
    LET teamPlayers == { id \in DOMAIN P : P[id].team = team }
        rolePlayers == { id \in teamPlayers : P[id].role = preferredRole }
    IN  IF rolePlayers # {} THEN rolePlayers ELSE teamPlayers

\* the score after the "Update score" block of MatchEngine.handleGoal
handleGoalScore(score, team) == [score EXCEPT ![team] = @ + 1]

\* MatchEngine.handleGoal, when it does not throw
handleGoal(w, team) ==
    LET ms1 == addEvent(w.ms, Event("goal", team, w.ms.gameTime))
        ms2 == [ms1 EXCEPT !.score = handleGoalScore(@, team)]
    IN  [w EXCEPT !.ms = [ms2 EXCEPT !.setpiece = [type |-> "kickoff", team |-> OtherSide(team),
                                                   position |-> Center]],
                  !.players = resetBothTeams(w.players),
                  !.ball = setPossessor([w.ball EXCEPT !.position = Center], w.players, NoPlayer)]

\* a clamp without its upper end
clampSpeedFromBelow(speed) == Max(MinSpeed, speed)

\* MatchEngine.setGameSpeed: Math.max(0.1, Math.min(4, speed)), in tenths
clampSpeed(speed) == Max(MinSpeed, Min(MaxSpeed, speed))

SetWorld(w) ==
    /\ matchState' = w.ms
    /\ ball' = w.ball
    /\ players' = w.players
    /\ intervalId' = w.timer
    /\ timers' = w.timers
    /\ UNCHANGED <<lastRunningIndex, activeList>>

----------------------------------------------------------------------------
(* The state after construction: new MatchEngine() *)

EmptyTeam == [players |-> <<>>, formationPositions |-> <<>>]

\* the ids and tactics of the two TeamEntity objects the constructor builds
DefaultTeamData ==
    [home |-> [id |-> "", style |-> "possession", defensiveStyle |-> "midblock"],
     away |-> [id |-> "", style |-> "counter", defensiveStyle |-> "lowblock"]]

\* no tactical update has run and no decision step is in progress
InitTactics ==
    /\ teamData = DefaultTeamData
    /\ teamTacticalState = [id \in TeamIds |-> initialTeamTacticalState]
    /\ aiContext = <<>>

\* new SubstitutionSystem()
NoBench == [home |-> <<>>, away |-> <<>>]

Init ==
    /\ matchState = NewMatchState(DefaultSpeed)
    /\ ball = NewBall
    /\ players = <<>>
    /\ homeTeam = EmptyTeam
    /\ awayTeam = EmptyTeam
    /\ intervalId = FALSE
    /\ timers = 0
    /\ lastRunningIndex = 0
    /\ activeList = <<>>
    /\ sinceLast = 0
    /\ pc = "ready"
    /\ scaledDelta = 0
    /\ result = NoCall
    /\ InitTactics
    /\ benchPlayers = NoBench

----------------------------------------------------------------------------
(* MatchEngine: the public operations *)

\* the PlayerEntity objects initialize constructs from the two rosters
NewPlayers(hr, ar) ==
    [id \in HomeIds(hr) \cup AwayIds(ar) |->
        IF id \in HomeIds(hr)
        THEN [team |-> "home", role |-> hr[id], position |-> RosterPosition("home"),
              targetPosition |-> RosterPosition("home")]
        ELSE [team |-> "away", role |-> ar[id - 10], position |-> RosterPosition("away"),
              targetPosition |-> RosterPosition("away")]]

\* the TeamEntity built by initialize, after addPlayer and setupFormation
NewTeam(ids, P, isHome) ==
    LET t0 == [players |-> ids, formationPositions |-> <<>>]
    IN  [t0 EXCEPT !.formationPositions = setup442Formation(t0, P, isHome)]

\* MatchEngine.resetGame
resetGame(w) ==
    [stopGameLoop(w) EXCEPT
              !.ms = reset(w.ms),
              !.players = resetBothTeams(w.players),
              !.ball = setPossessor([w.ball EXCEPT !.position = Center,
                                                   !.lastTouchTeam = "home"],
                                    w.players, NoPlayer)]

\* the engine after initialize(homeTeamData, awayTeamData): new teams, players and
\* ball, setupFormation on both teams (it ends with resetPositions), then resetGame
initialize(ms, hr, ar) ==
    LET P0 == NewPlayers(hr, ar)
        ht == NewTeam([i \in 1 .. Len(hr) |-> i], P0, TRUE)
        at == NewTeam([i \in 1 .. Len(ar) |-> 10 + i], P0, FALSE)
    IN  [home |-> ht, away |-> at,
         players |-> resetPositions(at, resetPositions(ht, P0)),
         ball |-> NewBall, ms |-> reset(ms), timer |-> FALSE]

\* MatchEngine.initialize(homeTeamData, awayTeamData)
Initialize(hr, ar, td) ==
    /\ pc = "ready"
    /\ LET e == initialize(matchState, hr, ar)
       IN  /\ homeTeam' = e.home
           /\ awayTeam' = e.away
           /\ players' = e.players
           /\ ball' = e.ball
           /\ matchState' = e.ms
           /\ intervalId' = e.timer
           /\ timers' = stopGameLoop(World).timers
           /\ UNCHANGED <<lastRunningIndex, activeList>>
    /\ teamData' = td
    /\ UNCHANGED <<sinceLast, pc, scaledDelta>>
    /\ UNCHANGED <<result, teamTacticalState, aiContext, benchPlayers>>

\* MatchEngine.startGame, with setupKickoff and startGameLoop
StartGame ==
    /\ pc = "ready"
    /\ matchState.gameState # "playing"
    /\ LET isHalftime == matchState.gameState = "halftime"
           isKickoff == matchState.gameTime = 0
           w0 == [World EXCEPT !.ms.gameState = "playing"]
           w1 == IF isKickoff \/ isHalftime THEN setupKickoff(w0) ELSE w0
       IN  /\ (isKickoff \/ isHalftime) => Len(matchState.gameEvents) < MaxEvents
           /\ SetWorld(startGameLoop(w1))
    /\ sinceLast' = 0
    /\ UNCHANGED <<homeTeam, awayTeam, pc, scaledDelta>>
    /\ UNCHANGED <<result, teamData, teamTacticalState, aiContext, benchPlayers>>

\* a pauseGame that lost its guard: it pauses whatever the phase is
PauseGameAnyPhase ==
    /\ pc = "ready"
    /\ matchState' = [matchState EXCEPT !.gameState = "paused"]
    /\ intervalId' = stopGameLoop(World).timer
    /\ timers' = stopGameLoop(World).timers
    /\ UNCHANGED <<lastRunningIndex, activeList>>
    /\ UNCHANGED <<ball, players, homeTeam, awayTeam, sinceLast, pc, scaledDelta>>
    /\ UNCHANGED <<result, teamData, teamTacticalState, aiContext, benchPlayers>>

\* MatchEngine.pauseGame, with stopGameLoop
PauseGame ==
    /\ pc = "ready"
    /\ matchState.gameState = "playing"
    /\ matchState' = [matchState EXCEPT !.gameState = "paused"]
    /\ intervalId' = stopGameLoop(World).timer
    /\ timers' = stopGameLoop(World).timers
    /\ UNCHANGED <<lastRunningIndex, activeList>>
    /\ UNCHANGED <<ball, players, homeTeam, awayTeam, sinceLast, pc, scaledDelta>>
    /\ UNCHANGED <<result, teamData, teamTacticalState, aiContext, benchPlayers>>

\* MatchEngine.resetGame
ResetGame ==
    /\ pc = "ready"
    /\ SetWorld(resetGame(World))
    /\ UNCHANGED <<homeTeam, awayTeam, sinceLast, pc, scaledDelta>>
    /\ UNCHANGED <<result, teamData, teamTacticalState, aiContext, benchPlayers>>

\* MatchEngine.setGameSpeed(speed)
SetGameSpeed(speed) ==
    /\ pc = "ready"
    /\ matchState' = [matchState EXCEPT !.gameSpeed = clampSpeed(speed)]
    /\ UNCHANGED <<ball, players, homeTeam, awayTeam, intervalId, timers, lastRunningIndex, activeList, sinceLast, pc, scaledDelta>>
    /\ UNCHANGED <<result, teamData, teamTacticalState, aiContext, benchPlayers>>

\* real time passes between two callbacks
Elapse ==
    /\ pc = "ready"
    /\ sinceLast < MaxElapsed
    /\ sinceLast' = sinceLast + 1
    /\ UNCHANGED <<matchState, ball, players, homeTeam, awayTeam, intervalId, timers, lastRunningIndex, activeList, pc, scaledDelta>>
    /\ UNCHANGED <<result, teamData, teamTacticalState, aiContext, benchPlayers>>

\* BallEntity.kick through the engine's public ball
Kick(velocity) ==
    /\ pc = "ready"
    /\ matchState.gameState = "playing"
    /\ ball' = kick(ball, velocity)
    /\ UNCHANGED <<matchState, players, homeTeam, awayTeam, intervalId, timers, lastRunningIndex, activeList, sinceLast, pc, scaledDelta>>
    /\ UNCHANGED <<result, teamData, teamTacticalState, aiContext, benchPlayers>>

\* BallEntity.setPossessor through the engine's public ball
SetPossessor(player) ==
    /\ pc = "ready"
    /\ matchState.gameState = "playing"
    /\ ball' = setPossessor(ball, players, player)
    /\ UNCHANGED <<matchState, players, homeTeam, awayTeam, intervalId, timers, lastRunningIndex, activeList, sinceLast, pc, scaledDelta>>
    /\ UNCHANGED <<result, teamData, teamTacticalState, aiContext, benchPlayers>>

----------------------------------------------------------------------------
(* MatchEngine.update(), one timer callback *)

\* update(), "Update match time": the clock, stoppage time and the half end
updateClock(w, delta) ==
    LET ms1 == [w.ms EXCEPT !.gameTime = @ + delta * 2]
        halfDuration == HalfDuration
        halfTimeElapsed == ms1.gameTime % halfDuration
        ms2 == IF halfTimeElapsed >= halfDuration
               THEN [ms1 EXCEPT !.stoppageTime = @ + delta * 2]
               ELSE ms1
        w2 == [w EXCEPT !.ms = ms2]
    IN  IF isTimeForHalfEnd(ms2) THEN handleHalfEnd(w2) ELSE w2

\* the timer callback of startGameLoop fires and update() runs up to updateEntities;
\* the callback comes an interval after startGameLoop or after the callback before
\* it, so real time has passed since lastUpdateTime
\* a clock at or beyond maxTime is recorded as maxTime
capClock(w, maxTime) == [w EXCEPT !.ms.gameTime = Min(@, maxTime)]

\* with saturate the clock runs on beyond maxTime, recorded as maxTime; without it
\* the run is followed up to maxTime only
TimerFiresWithin(maxTime, saturate) ==
    /\ pc = "ready"
    /\ timers > 0
    /\ matchState.gameState = "playing"
    /\ sinceLast > 0
    /\ LET deltaTime == sinceLast
           delta == deltaTime * matchState.gameSpeed
       IN  /\ saturate \/ matchState.gameTime + delta * 2 <= maxTime
           /\ Len(matchState.gameEvents) < MaxEvents
           /\ scaledDelta' = delta
           /\ SetWorld(capClock(updateClock(World, delta), maxTime))
    /\ sinceLast' = 0
    /\ pc' = "entities"
    /\ UNCHANGED <<homeTeam, awayTeam>>
    /\ UNCHANGED <<result, teamData, teamTacticalState, aiContext, benchPlayers>>

\* MatchEngine.updateEntities: the ball first, then every player; a player's
\* position is what the physics collaborator reports, or stays when it reports none
UpdateEntities ==
    /\ pc = "entities"
    /\ ball' = ballUpdate(ball, players, scaledDelta)
    /\ \E physics \in [DOMAIN players -> PhysicsPositions \cup {Pos(0, 0)}] :
          players' = [id \in DOMAIN players |->
                        IF physics[id] \in PhysicsPositions
                        THEN [players[id] EXCEPT !.position = physics[id]]
                        ELSE players[id]]
    /\ pc' = "match"
    /\ UNCHANGED <<matchState, homeTeam, awayTeam, intervalId, timers, lastRunningIndex, activeList, sinceLast, scaledDelta>>
    /\ UNCHANGED <<result, teamData, teamTacticalState, aiContext, benchPlayers>>

\* the team a player belongs to
TeamOf(id) == IF players[id].team = "home" THEN homeTeam ELSE awayTeam

\* MatchEngine.updateMatch up to updateMatchLogic: updateTeamBehaviors and
\* updatePlayerAI.  The decision of updateAI either leaves the target or sets it to
\* the ball; FormationSystem.updatePlayerPosition then sets the target of every
\* player that has a slot.
UpdateMatch ==
    /\ pc = "match"
    /\ IF matchState.gameState # "playing"
       THEN /\ pc' = "ready"
            /\ scaledDelta' = 0
            /\ UNCHANGED <<players, teamTacticalState, aiContext>>
       ELSE /\ pc' = "ballOut"
            /\ UNCHANGED scaledDelta
            /\ teamTacticalState' =
                 updateBothTeamBehaviors(teamData, matchState, ball, teamTacticalState)
            /\ aiContext' = [id \in DOMAIN players |->
                                playerContext(matchState, teamData[players[id].team])]
            /\ \E dials \in [Sides -> DialInputs], chase \in SUBSET { id \in DOMAIN players :
                                    id \notin DOMAIN TeamOf(id).formationPositions } :
                 players' = [id \in DOMAIN players |->
                    IF id \in DOMAIN TeamOf(id).formationPositions
                    THEN [players[id] EXCEPT !.targetPosition =
                            setTarget(calculateAdjustedPosition(
                                TeamOf(id).formationPositions[id], ball.position,
                                players[id].role, players[id].team = "home",
                                dials[players[id].team]))]
                    ELSE IF id \in chase
                    THEN [players[id] EXCEPT !.targetPosition = setTarget(ball.position)]
                    ELSE players[id]]
    /\ UNCHANGED <<matchState, ball, homeTeam, awayTeam, intervalId, timers, lastRunningIndex, activeList, sinceLast>>
    /\ UNCHANGED <<result, teamData, benchPlayers>>

\* MatchEngine.updateMatchLogic, "Check if ball is out of bounds"
CheckBallOut ==
    /\ pc = "ballOut"
    /\ LET ballOutCheck == isBallOutOfBounds(ball)
       IN  IF ballOutCheck.isOut
           THEN SetWorld(handleBallOut(World, ballOutCheck.type, ballOutCheck.team,
                                       ballOutCheck.position))
           ELSE UNCHANGED <<matchState, ball, players, intervalId, timers, lastRunningIndex, activeList>>
    /\ pc' = "goal"
    /\ UNCHANGED <<homeTeam, awayTeam, sinceLast, scaledDelta>>
    /\ UNCHANGED <<result, teamData, teamTacticalState, aiContext, benchPlayers>>

\* MatchEngine.updateMatchLogic, "Check for goals", and the rest of update();
\* handleGoal throws before it changes anything when the scoring side has no player
CheckGoal ==
    /\ pc = "goal"
    /\ LET goalCheck == isGoalScored(ball)
       IN  IF goalCheck.isGoal /\ getRandomPlayerFromTeam(players, goalCheck.team, "FWD") # {}
           THEN SetWorld(handleGoal(World, goalCheck.team))
           ELSE UNCHANGED <<matchState, ball, players, intervalId, timers, lastRunningIndex, activeList>>
    /\ pc' = "ready"
    /\ scaledDelta' = 0
    /\ aiContext' = <<>>
    /\ UNCHANGED <<homeTeam, awayTeam, sinceLast>>
    /\ UNCHANGED <<result, teamData, teamTacticalState, benchPlayers>>

----------------------------------------------------------------------------

TimerFires == TimerFiresWithin(MaxPlayTime, FALSE)

TimerFiresLong == TimerFiresWithin(MaxGameTime, TRUE)

UpdateStep ==
    \/ UpdateEntities
    \/ UpdateMatch
    \/ CheckBallOut
    \/ CheckGoal

\* the engine with its ball in play, at the default speed
Next ==
    \/ \E hr \in PlayHomeRosterInputs, ar \in PlayAwayRosterInputs, td \in TeamDataInputs :
         Initialize(hr, ar, td)
    \/ StartGame
    \/ PauseGame
    \/ ResetGame
    \/ Elapse
    \/ \E velocity \in KickInputs : Kick(velocity)
    \/ \E player \in DOMAIN players \cup {NoPlayer} : SetPossessor(player)
    \/ TimerFires
    \/ UpdateStep

Spec == Init /\ [][Next]_vars

\* the same, every update() the timer has started running to its end
TickSpec == Init /\ [][Next]_vars /\ WF_vars(UpdateStep)

\* the match clock: every control of the engine, nobody touching the ball
NextClock ==
    \/ \E hr \in HomeRosterInputs, ar \in AwayRosterInputs, td \in TeamDataInputs :
         Initialize(hr, ar, td)
    \/ StartGame
    \/ PauseGame
    \/ ResetGame
    \/ \E speed \in SpeedInputs : SetGameSpeed(speed)
    \/ Elapse
    \/ TimerFiresLong
    \/ UpdateStep

ClockSpec == Init /\ [][NextClock]_vars

\* a match from its kickoff: an initialized engine, its ticks firing, no pause,
\* no reset, no change of speed
InitMatch ==
    /\ \E hr \in HomeRosterInputs, ar \in AwayRosterInputs :
         LET e == initialize(NewMatchState(DefaultSpeed), hr, ar)
         IN  /\ homeTeam = e.home
             /\ awayTeam = e.away
             /\ players = e.players
             /\ ball = e.ball
             /\ matchState = e.ms
             /\ intervalId = e.timer
             /\ timers = 0
             /\ lastRunningIndex = 0
             /\ activeList = <<>>
    /\ sinceLast = 0
    /\ pc = "ready"
    /\ scaledDelta = 0
    /\ result = NoCall
    /\ teamData \in TeamDataInputs
    /\ teamTacticalState = [id \in TeamIds |-> initialTeamTacticalState]
    /\ aiContext = <<>>
    /\ benchPlayers = NoBench

NextMatch ==
    \/ StartGame
    \/ Elapse
    \/ TimerFiresLong
    \/ UpdateStep

\* the speed control during one match: an initialized engine that is started,
\* paused and resumed while its ticks fire and setGameSpeed is called
NextSpeed ==
    \/ StartGame
    \/ PauseGame
    \/ \E speed \in SpeedRangeInputs : SetGameSpeed(speed)
    \/ Elapse
    \/ TimerFiresLong
    \/ UpdateStep

SpeedSpec == InitMatch /\ [][NextSpeed]_vars

\* startGame is called at kickoff and after every halftime, real time passes, and
\* the interval timer keeps calling update(), which runs to its end
MatchSpec ==
    /\ InitMatch
    /\ [][NextMatch]_vars
    /\ WF_vars(StartGame)
    /\ WF_vars(Elapse)
    /\ WF_vars(TimerFiresLong)
    /\ WF_vars(UpdateStep)

----------------------------------------------------------------------------
(* MatchState on its own: the object behind its public methods *)

EventInputs == { Event(type, team, 0) : type \in {"goal", "kickoff"}, team \in Sides }

MatchStateAddEvent(event) ==
    /\ Len(matchState.gameEvents) < MaxEvents
    /\ matchState' = addEvent(matchState, event)
    /\ UNCHANGED <<ball, players, homeTeam, awayTeam, intervalId, timers, lastRunningIndex, activeList, sinceLast, pc, scaledDelta>>
    /\ UNCHANGED <<result, teamData, teamTacticalState, aiContext, benchPlayers>>

MatchStateAdvanceToNextHalf ==
    /\ matchState' = advanceToNextHalf(matchState)
    /\ UNCHANGED <<ball, players, homeTeam, awayTeam, intervalId, timers, lastRunningIndex, activeList, sinceLast, pc, scaledDelta>>
    /\ UNCHANGED <<result, teamData, teamTacticalState, aiContext, benchPlayers>>

MatchStateReset ==
    /\ matchState' = reset(matchState)
    /\ UNCHANGED <<ball, players, homeTeam, awayTeam, intervalId, timers, lastRunningIndex, activeList, sinceLast, pc, scaledDelta>>
    /\ UNCHANGED <<result, teamData, teamTacticalState, aiContext, benchPlayers>>

NextMatchState ==
    \/ \E event \in EventInputs : MatchStateAddEvent(event)
    \/ MatchStateAdvanceToNextHalf
    \/ MatchStateReset

MatchStateSpec == Init /\ [][NextMatchState]_vars

----------------------------------------------------------------------------
(* MatchRules on its own: the rules asked about a ball *)

InitRules ==
    /\ ball \in BallInputs
    /\ matchState = NewMatchState(DefaultSpeed)
    /\ players = <<>>
    /\ homeTeam = EmptyTeam
    /\ awayTeam = EmptyTeam
    /\ intervalId = FALSE
    /\ timers = 0
    /\ lastRunningIndex = 0
    /\ activeList = <<>>
    /\ sinceLast = 0
    /\ pc = "ready"
    /\ scaledDelta = 0
    /\ result = NoCall
    /\ InitTactics
    /\ benchPlayers = NoBench

CallIsBallOutOfBounds ==
    /\ result' = [op |-> "isBallOutOfBounds", value |-> isBallOutOfBounds(ball)]
    /\ UNCHANGED <<teamData, teamTacticalState, aiContext, benchPlayers>>
    /\ UNCHANGED <<matchState, ball, players, homeTeam, awayTeam, intervalId, timers, lastRunningIndex, activeList, sinceLast, pc,
                   scaledDelta>>

CallIsGoalScored ==
    /\ result' = [op |-> "isGoalScored", value |-> isGoalScored(ball)]
    /\ UNCHANGED <<teamData, teamTacticalState, aiContext, benchPlayers>>
    /\ UNCHANGED <<matchState, ball, players, homeTeam, awayTeam, intervalId, timers, lastRunningIndex, activeList, sinceLast, pc,
                   scaledDelta>>

NextRules ==
    \/ CallIsBallOutOfBounds
    \/ CallIsGoalScored

RulesSpec == InitRules /\ [][NextRules]_vars

----------------------------------------------------------------------------
(* OffsideRule on its own: the rule asked about a set of players and a ball *)

InitOffside ==
    /\ players \in OffsidePlayerInputs
    /\ ball \in OffsideBallInputs
    /\ matchState = NewMatchState(DefaultSpeed)
    /\ homeTeam = EmptyTeam
    /\ awayTeam = EmptyTeam
    /\ intervalId = FALSE
    /\ timers = 0
    /\ lastRunningIndex = 0
    /\ activeList = <<>>
    /\ sinceLast = 0
    /\ pc = "ready"
    /\ scaledDelta = 0
    /\ result = NoCall
    /\ InitTactics
    /\ benchPlayers = NoBench

CallCalculateOffsideLine ==
    /\ result' = [op |-> "calculateOffsideLine", value |-> calculateOffsideLine(players)]
    /\ UNCHANGED <<teamData, teamTacticalState, aiContext, benchPlayers>>
    /\ UNCHANGED <<matchState, ball, players, homeTeam, awayTeam, intervalId, timers, lastRunningIndex, activeList, sinceLast, pc,
                   scaledDelta>>

CallIsPlayerOffside(player) ==
    /\ result' = [op |-> "isPlayerOffside", player |-> player,
                  value |-> isPlayerOffside(player, players, ball)]
    /\ UNCHANGED <<teamData, teamTacticalState, aiContext, benchPlayers>>
    /\ UNCHANGED <<matchState, ball, players, homeTeam, awayTeam, intervalId, timers, lastRunningIndex, activeList, sinceLast, pc,
                   scaledDelta>>

NextOffside ==
    \/ CallCalculateOffsideLine
    \/ \E player \in DOMAIN players : CallIsPlayerOffside(player)

OffsideSpec == InitOffside /\ [][NextOffside]_vars

----------------------------------------------------------------------------
(* The team behavior system on its own: asked about a match situation, and run
   as the engine runs it while the match moves on *)

\* the match state and the ball of a situation
inSituation(ms, sit) ==
    [ms EXCEPT !.gameState = "playing", !.score = sit.score, !.gameTime = sit.gameTime,
               !.setpiece = sit.setpiece]

ballInSituation(sit) ==
    [position |-> Pos(30, 50), velocity |-> Pos(0, 0), possessor |-> sit.possessor,
     lastTouchTeam |-> "home"]

InitBehaviors ==
    /\ \E sit \in SituationInputs :
         /\ matchState = inSituation(NewMatchState(DefaultSpeed), sit)
         /\ ball = ballInSituation(sit)
    /\ teamData \in TacticsTeamDataInputs
    /\ teamTacticalState = [id \in TeamIds |-> initialTeamTacticalState]
    /\ aiContext = <<>>
    /\ players = <<>>
    /\ homeTeam = EmptyTeam
    /\ awayTeam = EmptyTeam
    /\ intervalId = TRUE
    /\ timers = 1
    /\ lastRunningIndex = 0
    /\ activeList = <<>>
    /\ sinceLast = 0
    /\ pc = "ready"
    /\ scaledDelta = 0
    /\ result = NoCall
    /\ benchPlayers = NoBench

\* the match moves on between two tactical updates
MatchMovesOn(sit) ==
    /\ matchState' = inSituation(matchState, sit)
    /\ ball' = ballInSituation(sit)
    /\ UNCHANGED <<players, homeTeam, awayTeam, intervalId, timers, lastRunningIndex, activeList, sinceLast, pc, scaledDelta,
                   result, teamData, teamTacticalState, aiContext, benchPlayers>>

CallAnalyzeTacticalSituation(side) ==
    /\ result' = [op |-> "analyzeTacticalSituation", side |-> side,
                  value |-> analyzeTacticalSituation(teamData[side], matchState, ball)]
    /\ UNCHANGED <<matchState, ball, players, homeTeam, awayTeam, intervalId, timers, lastRunningIndex, activeList, sinceLast, pc,
                   scaledDelta, teamData, teamTacticalState, aiContext, benchPlayers>>

\* MatchEngine.updateTeamBehaviors(deltaTime)
CallUpdateTeamBehaviors ==
    /\ teamTacticalState' =
         updateBothTeamBehaviors(teamData, matchState, ball, teamTacticalState)
    /\ result' = [op |-> "updateTeamBehaviors"]
    /\ UNCHANGED <<matchState, ball, players, homeTeam, awayTeam, intervalId, timers, lastRunningIndex, activeList, sinceLast, pc,
                   scaledDelta, teamData, aiContext, benchPlayers>>

NextBehaviors ==
    \/ \E sit \in SituationInputs : MatchMovesOn(sit)
    \/ \E side \in Sides : CallAnalyzeTacticalSituation(side)
    \/ CallUpdateTeamBehaviors

BehaviorsSpec == InitBehaviors /\ [][NextBehaviors]_vars

----------------------------------------------------------------------------
(* SubstitutionSystem on its own: an initialized engine, its bench, and the
   substitutions asked of it; the active list is the one makeSubstitution
   returned last *)

InitSubstitution ==
    /\ \E hr \in HomeRosterInputs, ar \in AwayRosterInputs :
         LET e == initialize(NewMatchState(DefaultSpeed), hr, ar)
         IN  /\ homeTeam = e.home
             /\ awayTeam = e.away
             /\ players = e.players
             /\ ball = e.ball
             /\ matchState = e.ms
             /\ intervalId = e.timer
             /\ timers = 0
             /\ lastRunningIndex = 0
             /\ activeList = playersInOrder(e.players)
    /\ sinceLast = 0
    /\ pc = "ready"
    /\ scaledDelta = 0
    /\ result = NoCall
    /\ teamData \in TeamDataInputs
    /\ teamTacticalState = [id \in TeamIds |-> initialTeamTacticalState]
    /\ aiContext = <<>>
    /\ benchPlayers = NoBench

\* SubstitutionSystem.initializeBench(homeBench, awayBench)
InitializeBench(homeBench, awayBench) ==
    /\ result.op = "none"
    /\ benchPlayers' =
         [home |-> [i \in 1 .. Len(homeBench) |->
                      BenchPlayer(homeBench[i].id, "home", homeBench[i].role)],
          away |-> [i \in 1 .. Len(awayBench) |->
                      BenchPlayer(awayBench[i].id, "away", awayBench[i].role)]]
    /\ result' = [op |-> "initializeBench"]
    /\ UNCHANGED <<matchState, ball, players, homeTeam, awayTeam, intervalId, timers, lastRunningIndex, activeList, sinceLast, pc,
                   scaledDelta, teamData, teamTacticalState, aiContext>>

\* a call of makeSubstitution with the engine's teams and players; the players
\* it returns become the engine's players
MakeSubstitution(request) ==
    /\ LET r == makeSubstitution(request, homeTeam, awayTeam, players, benchPlayers)
       IN  /\ players' = r.players
           /\ homeTeam' = r.home
           /\ awayTeam' = r.away
           /\ benchPlayers' = r.benchPlayers
           /\ activeList' = IF r.success
                            THEN updatedPlayersList(activeList, players, request)
                            ELSE activeList
           /\ result' = [op |-> "makeSubstitution", request |-> request,
                         success |-> r.success, message |-> r.message]
    /\ UNCHANGED <<matchState, ball, intervalId, timers, lastRunningIndex, sinceLast, pc,
                   scaledDelta, teamData, teamTacticalState, aiContext>>

NextSubstitution ==
    \/ \E homeBench \in HomeBenchInputs, awayBench \in AwayBenchInputs :
         InitializeBench(homeBench, awayBench)
    \/ \E request \in RequestInputs : MakeSubstitution(request)

SubstitutionSpec == InitSubstitution /\ [][NextSubstitution]_vars

----------------------------------------------------------------------------
(* PlayerEntity on its own: the players of an initialized engine, with their
   fatigue and stamina, behind update, setTarget and the teams' resetPositions *)

InitPlayer ==
    /\ \E hr \in PlayHomeRosterInputs, ar \in PlayAwayRosterInputs :
         LET e == initialize(NewMatchState(DefaultSpeed), hr, ar)
         IN  /\ homeTeam = e.home
             /\ awayTeam = e.away
             /\ players = [id \in DOMAIN e.players |->
                              e.players[id] @@ NewPlayerFields @@
                              [stamina |-> StaminaInputs[e.players[id].team]]]
             /\ ball = e.ball
             /\ matchState = e.ms
             /\ intervalId = e.timer
             /\ timers = 0
             /\ lastRunningIndex = 0
             /\ activeList = <<>>
    /\ sinceLast = 0
    /\ pc = "ready"
    /\ scaledDelta = 0
    /\ result = NoCall
    /\ teamData \in TeamDataInputs
    /\ teamTacticalState = [id \in TeamIds |-> initialTeamTacticalState]
    /\ aiContext = <<>>
    /\ benchPlayers = NoBench

\* PlayerEntity.update(gameSpeed, ball); physics is the position the physics
\* collaborator reports, the player's own when it reports none
PlayerUpdate(id, gameSpeed, physics) ==
    /\ players' = [players EXCEPT ![id] = playerUpdate(@, id, gameSpeed, ball, physics)]
    /\ result' = [op |-> "update", player |-> id]
    /\ UNCHANGED <<matchState, ball, homeTeam, awayTeam, intervalId, timers, lastRunningIndex, activeList, sinceLast, pc, scaledDelta,
                   teamData, teamTacticalState, aiContext, benchPlayers>>

\* PlayerEntity.setTarget(target)
SetTarget(id, target) ==
    /\ players' = [players EXCEPT ![id].targetPosition = setTarget(target)]
    /\ result' = [op |-> "setTarget", player |-> id, target |-> target]
    /\ UNCHANGED <<matchState, ball, homeTeam, awayTeam, intervalId, timers, lastRunningIndex, activeList, sinceLast, pc, scaledDelta,
                   teamData, teamTacticalState, aiContext, benchPlayers>>

\* TeamEntity.resetPositions on both teams
ResetPositions ==
    /\ players' = resetBothTeams(players)
    /\ result' = [op |-> "resetPositions"]
    /\ UNCHANGED <<matchState, ball, homeTeam, awayTeam, intervalId, timers, lastRunningIndex, activeList, sinceLast, pc, scaledDelta,
                   teamData, teamTacticalState, aiContext, benchPlayers>>

NextPlayer ==
    \/ \E id \in DOMAIN players, gameSpeed \in UpdateSpeedInputs :
          \E physics \in PhysicsPositions \cup {players[id].position} :
             PlayerUpdate(id, gameSpeed, physics)
    \/ \E id \in DOMAIN players, target \in TargetInputs : SetTarget(id, target)
    \/ ResetPositions

PlayerSpec == InitPlayer /\ [][NextPlayer]_vars

----------------------------------------------------------------------------
(* The decision steps of PlayerEntity: update and updateAI on three players *)

\* the contexts handed to updateAI: with or without a tactical state, with or
\* without an assigned player to mark
ContextInputs(id) ==
    { [given |-> FALSE, playerToMark |-> NoPlayer] }
    \cup { [given |-> TRUE, playerToMark |-> NoPlayer,
            teamTacticalState |-> applyTeamBehavior(behavior, initialTeamTacticalState)] :
           behavior \in ContextBehaviorInputs }
    \cup { [given |-> TRUE, playerToMark |-> mark,
            teamTacticalState |-> applyTeamBehavior("highPress", initialTeamTacticalState)] :
           mark \in { o \in DOMAIN players : players[o].team # players[id].team } }

InitDecision ==
    /\ players = [id \in DOMAIN DecisionPlayerInputs |->
                     DecisionPlayerInputs[id] @@ NewPlayerFields @@
                     [targetPosition |-> DecisionPlayerInputs[id].position]]
    /\ ball \in DecisionBallInputs
    /\ matchState = NewMatchState(DefaultSpeed)
    /\ homeTeam = EmptyTeam
    /\ awayTeam = EmptyTeam
    /\ intervalId = FALSE
    /\ timers = 0
    /\ lastRunningIndex = 0
    /\ activeList = <<>>
    /\ sinceLast = 0
    /\ pc = "ready"
    /\ scaledDelta = 0
    /\ result = NoCall
    /\ InitTactics
    /\ benchPlayers = NoBench

\* PlayerEntity.updateAI(context)
UpdateAI(id, context, rnd) ==
    /\ players' = updateAI(players, id, ball, context, rnd)
    /\ result' = [op |-> "updateAI", player |-> id, context |-> context]
    /\ UNCHANGED <<matchState, ball, homeTeam, awayTeam, intervalId, timers, lastRunningIndex, activeList, sinceLast, pc,
                   scaledDelta, teamData, teamTacticalState, aiContext, benchPlayers>>

NextDecision ==
    \/ \E id \in DeciderInputs, gameSpeed \in DecisionSpeedInputs :
          PlayerUpdate(id, gameSpeed, players[id].position)
    \/ \E id \in DeciderInputs, rnd \in RandomInputs :
          \E context \in ContextInputs(id) : UpdateAI(id, context, rnd)

DecisionSpec == InitDecision /\ [][NextDecision]_vars

----------------------------------------------------------------------------
(* A selector node on its own: evaluated again and again, each time with the
   results its children return in that evaluation *)

ChildResultInputs == [1..MaxChildren -> NodeResults]

InitSelector ==
    /\ ball = NewBall
    /\ matchState = NewMatchState(DefaultSpeed)
    /\ players = <<>>
    /\ homeTeam = EmptyTeam
    /\ awayTeam = EmptyTeam
    /\ intervalId = FALSE
    /\ timers = 0
    /\ lastRunningIndex = 0
    /\ activeList = <<>>
    /\ sinceLast = 0
    /\ pc = "ready"
    /\ scaledDelta = 0
    /\ result = NoCall
    /\ InitTactics
    /\ benchPlayers = NoBench

\* one read of the atom selectorNodeAtom returns
EvaluateSelector(childResults) ==
    LET r == selectorNode(lastRunningIndex, childResults)
    IN  /\ lastRunningIndex' = r.lastRunningIndex
        /\ UNCHANGED activeList
        /\ result' = [op |-> "selectorNode", children |-> childResults,
                      from |-> lastRunningIndex, value |-> r.value]
        /\ UNCHANGED <<matchState, ball, players, homeTeam, awayTeam, intervalId, timers,
                       sinceLast, pc, scaledDelta, teamData, teamTacticalState, aiContext,
                       benchPlayers>>

NextSelector == \E childResults \in ChildResultInputs : EvaluateSelector(childResults)

SelectorSpec == InitSelector /\ [][NextSelector]_vars

----------------------------------------------------------------------------
(* The field-player tree on its own: evaluated for the three decision players,
   between updates that bring hasBall up to date *)

\* one call of the function the atom evaluateBehavior holds
EvaluateBehavior(id) ==
    LET r == evaluateBehavior(players, id, ball)
    IN  /\ players' = r.players
        /\ result' = [op |-> "evaluateBehavior", player |-> id, value |-> r.value,
                      currentBehavior |-> r.currentBehavior]
        /\ UNCHANGED <<matchState, ball, homeTeam, awayTeam, intervalId, timers,
                       lastRunningIndex, activeList, sinceLast, pc, scaledDelta, teamData,
                       teamTacticalState, aiContext, benchPlayers>>

NextTree ==
    \/ \E id \in DOMAIN players, gameSpeed \in DecisionSpeedInputs :
          PlayerUpdate(id, gameSpeed, players[id].position)
    \/ \E id \in DOMAIN players : EvaluateBehavior(id)

TreeSpec == InitDecision /\ [][NextTree]_vars

----------------------------------------------------------------------------
(* createMarkingAssignments on its own: asked about lists of defenders and of
   dangerous opponents *)

CallCreateMarkingAssignments(defenders, dangerousOpponents) ==
    /\ result' = [op |-> "createMarkingAssignments", defenders |-> defenders,
                  dangerousOpponents |-> dangerousOpponents,
                  value |-> createMarkingAssignments(defenders, dangerousOpponents)]
    /\ UNCHANGED <<matchState, ball, players, homeTeam, awayTeam, intervalId, timers,
                   lastRunningIndex, activeList, sinceLast, pc, scaledDelta, teamData,
                   teamTacticalState, aiContext, benchPlayers>>

NextMarking ==
    \E defenders \in listsOf(MarkingDefenderInputs),
       dangerousOpponents \in listsOf(MarkingOpponentInputs) :
          CallCreateMarkingAssignments(defenders, dangerousOpponents)

MarkingSpec == InitSelector /\ [][NextMarking]_vars

----------------------------------------------------------------------------
(* The decision and positioning step of a tick on its own: the three decision
   players as the players of an engine, some of them injured or sent off *)

InitAI ==
    /\ \E out \in UnavailableInputs :
          players = [id \in DOMAIN DecisionPlayerInputs |->
                       [DecisionPlayerInputs[id] @@ NewPlayerFields @@
                        [targetPosition |-> DecisionPlayerInputs[id].position]
                        EXCEPT !.injured = id \in out.injured,
                               !.redCard = id \in out.redCard]]
    /\ ball \in DecisionBallInputs
    /\ matchState = NewMatchState(DefaultSpeed)
    /\ homeTeam = [players |-> <<1>>,
                   formationPositions |-> (1 :> DecisionPlayerInputs[1].position)]
    /\ awayTeam = [players |-> <<11, 12>>,
                   formationPositions |-> (11 :> DecisionPlayerInputs[11].position)
                                          @@ (12 :> DecisionPlayerInputs[12].position)]
    /\ intervalId = FALSE
    /\ timers = 0
    /\ lastRunningIndex = 0
    /\ activeList = <<>>
    /\ sinceLast = 0
    /\ pc = "ready"
    /\ scaledDelta = 0
    /\ result = NoCall
    /\ InitTactics
    /\ benchPlayers = NoBench

\* MatchEngine.updatePlayerAI(deltaTime)
UpdatePlayerAI(rnd) ==
    LET r == updatePlayerAI(players, homeTeam, awayTeam, teamData, matchState, ball, rnd)
    IN  /\ players' = r.players
        /\ result' = [op |-> "updatePlayerAI", processed |-> r.processed]
        /\ UNCHANGED <<matchState, ball, homeTeam, awayTeam, intervalId, timers,
                       lastRunningIndex, activeList, sinceLast, pc, scaledDelta, teamData,
                       teamTacticalState, aiContext, benchPlayers>>

NextAI ==
    \/ \E id \in DOMAIN players, gameSpeed \in DecisionSpeedInputs :
          PlayerUpdate(id, gameSpeed, players[id].position)
    \/ \E rnd \in [DOMAIN players -> RandomInputs] : UpdatePlayerAI(rnd)

AISpec == InitAI /\ [][NextAI]_vars

----------------------------------------------------------------------------
(* TeamEntity on its own: a team of eleven whose role counts are those of one
   formation, and the formation changes asked of it *)

InitFormation ==
    /\ \E formation \in FormationType, side \in Sides, out \in FormationUnavailableInputs :
          /\ players = [id \in 1 .. 11 |->
                           [team |-> side, role |-> FormationRoster(formation)[id],
                            position |-> RosterPosition(side),
                            targetPosition |-> RosterPosition(side),
                            injured |-> FALSE, redCard |-> id \in out]]
          /\ result = [op |-> "TeamEntity", roster |-> formation]
    /\ homeTeam = [players |-> [i \in 1 .. 11 |-> i], formationPositions |-> <<>>]
    /\ awayTeam = EmptyTeam
    /\ ball = NewBall
    /\ matchState = NewMatchState(DefaultSpeed)
    /\ intervalId = FALSE
    /\ timers = 0
    /\ lastRunningIndex = 0
    /\ activeList = <<>>
    /\ sinceLast = 0
    /\ pc = "ready"
    /\ scaledDelta = 0
    /\ InitTactics
    /\ benchPlayers = NoBench

\* TeamEntity.changeFormation(formation, isHome) on the team, called with the side
\* of the team
ChangeFormation(formation) ==
    LET r == changeFormation(homeTeam, players, formation, players[1].team = "home")
    IN  /\ homeTeam' = r.team
        /\ players' = r.players
        /\ result' = [op |-> "changeFormation", roster |-> result.roster,
                      formation |-> formation]
        /\ UNCHANGED <<matchState, ball, awayTeam, intervalId, timers, lastRunningIndex,
                       activeList, sinceLast, pc, scaledDelta, teamData, teamTacticalState,
                       aiContext, benchPlayers>>

NextFormation == \E formation \in FormationType : ChangeFormation(formation)

FormationSpec == InitFormation /\ [][NextFormation]_vars

----------------------------------------------------------------------------
(* The claims *)

Last(seq) == seq[Len(seq)]

\* the number of 'goal' events of the log credited to a side
GoalEvents(side) ==
    Cardinality({ i \in 1 .. Len(matchState.gameEvents) :
                    /\ matchState.gameEvents[i].type = "goal"
                    /\ matchState.gameEvents[i].teamId = side })

Slotted(id) ==
    id \in DOMAIN homeTeam.formationPositions \cup DOMAIN awayTeam.formationPositions

SlotOf(id) ==
    IF id \in DOMAIN homeTeam.formationPositions
    THEN homeTeam.formationPositions[id]
    ELSE awayTeam.formationPositions[id]

\* every player that has a formation slot stands on it and is heading for it
OnSlots(P) ==
    \A id \in DOMAIN P :
        Slotted(id) => P[id].position = SlotOf(id) /\ P[id].targetPosition = SlotOf(id)

\* the step of update() that advances the clock
ClockStep == pc = "ready" /\ pc' = "entities"

\* the last step of update(): the tick ends
TickEnds == pc = "goal" /\ pc' = "ready"

\* C1: a match run from its kickoff, its ticks firing and startGame called at
\* every halftime, eventually reaches the phase 'fulltime', with gameTime at
\* least 90 when it does.
C1_MatchReachesFullTime ==
    <>(matchState.gameState = "fulltime" /\ matchState.gameTime >= 90)

\* C2: in every reachable state each side's score is the number of 'goal' events
\* of the log credited to that side: handling one goal raises the scorer's score
\* by exactly 1.
C2_ScoreCountsGoalEvents ==
    /\ matchState.score.home = GoalEvents("home")
    /\ matchState.score.away = GoalEvents("away")

elapsedInHalf(ms) == ms.gameTime - HalfDuration * (ms.half - 1)

\* C4: in a tick that starts with 45 minutes of the half elapsed the tick's
\* game-time delta is added to stoppageTime unless the half ends, and the half
\* ends in a tick exactly when the 45 minutes are exceeded and stoppageTime has
\* reached stoppageTimeAdded.
C4_StoppageThenHalfEnd ==
    [][ClockStep =>
         LET delta == 2 * scaledDelta'
             halfEnds == matchState'.gameState \in {"halftime", "fulltime"}
             exceeded == elapsedInHalf(matchState) + delta > HalfDuration
         IN  /\ elapsedInHalf(matchState) >= HalfDuration =>
                  halfEnds \/ matchState'.stoppageTime = matchState.stoppageTime + delta
             /\ halfEnds <=>
                  exceeded /\ matchState'.stoppageTime >= matchState'.stoppageTimeAdded]_vars

\* C5: neither pauseGame from 'playing' nor the startGame that resumes from
\* 'paused' changes gameTime, half, score, the event log, the set-piece or a
\* position of a player or of the ball, and the resumed clock starts from the
\* moment of the resume.
C5_PauseResumeKeepsState ==
    [][LET from == matchState.gameState
           to == matchState'.gameState
       IN  (from = "playing" /\ to = "paused") \/ (from = "paused" /\ to = "playing") =>
             /\ matchState'.gameTime = matchState.gameTime
             /\ matchState'.half = matchState.half
             /\ matchState'.score = matchState.score
             /\ matchState'.gameEvents = matchState.gameEvents
             /\ matchState'.setpiece = matchState.setpiece
             /\ ball'.position = ball.position
             /\ DOMAIN players' = DOMAIN players
             /\ \A id \in DOMAIN players : players'[id].position = players[id].position
             /\ to = "playing" => sinceLast' = 0]_vars

\* the number of players of a side with a role
RoleCount(side, role) ==
    Cardinality({ id \in DOMAIN players : players[id].team = side /\ players[id].role = role })

\* one goalkeeper and the ten outfield players of the 4-4-2 initialize sets up
RosterShapeValid(side) ==
    /\ RoleCount(side, "GK") = 1
    /\ RoleCount(side, "DEF") = 4
    /\ RoleCount(side, "MID") = 4
    /\ RoleCount(side, "FWD") = 2

\* C6: after initialize with a roster that lacks a goalkeeper or is not 1 + 4-4-2
\* the phase never becomes 'playing'.
C6_InvalidRosterNeverPlays ==
    (players # <<>> /\ \E side \in Sides : ~RosterShapeValid(side)) =>
        matchState.gameState # "playing"

\* C7: a step that gives the ball a new possessor leaves its velocity zero, and at
\* the end of every tick with a possessor the ball is where the possessor is.
C7_BallFollowsPossessor ==
    [][/\ (ball'.possessor # NoPlayer /\ ball'.possessor # ball.possessor) =>
             ball'.velocity = Pos(0, 0)
       /\ (TickEnds /\ ball'.possessor # NoPlayer) =>
             ball'.position = players'[ball'.possessor].position]_vars

\* C8: handleBallOut, called with the restart of an out-of-bounds ball, changes
\* neither the log, the set-piece nor the ball when the set-piece already is that
\* restart; otherwise it appends one event of the restart's type and team,
\* installs the restart as the set-piece and leaves the ball on the restart
\* position with zero velocity and no possessor.
C8_HandleBallOut ==
    [][(pc = "ballOut" /\ isBallOutOfBounds(ball).isOut) =>
         LET out == isBallOutOfBounds(ball)
             restart == [type |-> out.type, team |-> out.team, position |-> out.position]
             log == matchState.gameEvents
         IN  IF matchState.setpiece = restart
             THEN /\ matchState'.gameEvents = log
                  /\ matchState'.setpiece = matchState.setpiece
                  /\ ball' = ball
             ELSE /\ Len(matchState'.gameEvents) = Len(log) + 1
                  /\ SubSeq(matchState'.gameEvents, 1, Len(log)) = log
                  /\ Last(matchState'.gameEvents).type = out.type
                  /\ Last(matchState'.gameEvents).teamId = out.team
                  /\ matchState'.setpiece = restart
                  /\ ball'.position = out.position
                  /\ ball'.velocity = Pos(0, 0)
                  /\ ball'.possessor = NoPlayer]_vars

\* the ball went out again for the restart already installed and was left alone
C8_RestartNotRepeated ==
    /\ pc = "goal"
    /\ isBallOutOfBounds(ball).isOut
    /\ matchState.setpiece.type = isBallOutOfBounds(ball).type
    /\ matchState.setpiece.team = isBallOutOfBounds(ball).team
    /\ matchState.setpiece.position = isBallOutOfBounds(ball).position
    /\ ball.position # matchState.setpiece.position
    /\ Last(matchState.gameEvents).type = matchState.setpiece.type

\* C9: the step that handles a goal for a side leaves a kickoff at (50,50) for
\* the other side, the ball at (50,50) without a possessor, and every player that
\* has a formation slot on it and heading for it.
C9_GoalRestart ==
    [][LET goal == isGoalScored(ball)
       IN  (pc = "goal" /\ goal.isGoal
              /\ \E id \in DOMAIN players : players[id].team = goal.team) =>
             /\ matchState'.setpiece =
                  [type |-> "kickoff",
                   team |-> IF goal.team = "home" THEN "away" ELSE "home",
                   position |-> Pos(50, 50)]
             /\ ball'.position = Pos(50, 50)
             /\ ball'.possessor = NoPlayer
             /\ OnSlots(players')]_vars

\* a goal has just been handled, with slotted players on the pitch
C9_GoalHandled ==
    /\ pc = "ready"
    /\ matchState.gameEvents # <<>>
    /\ Last(matchState.gameEvents).type = "goal"
    /\ matchState.setpiece.type = "kickoff"
    /\ matchState.setpiece.team # Last(matchState.gameEvents).teamId
    /\ \E id \in DOMAIN players : Slotted(id)

\* C10: a kickoff set-piece installed by MatchState.advanceToNextHalf for the
\* half it enters belongs to home when the half is odd and to away when it is
\* even.
C10_KickoffSideByHalfParity ==
    matchState.setpiece.type = "kickoff" =>
        matchState.setpiece.team = (IF matchState.half % 2 = 1 THEN "home" ELSE "away")

\* C11: isBallOutOfBounds answers for every ball: over a touchline (y <= 0 or
\* y >= 100) a throw-in for the side that did not touch last; else over a goal
\* line a corner for the attackers at the flag of the half crossed when the side
\* defending that line touched last, and a goal kick for the defenders
\* otherwise; else not out, with type, team and position null.
C11_OutOfBoundsClassification ==
    result.op = "isBallOutOfBounds" =>
        LET r == result.value
            pos == ball.position
            last == ball.lastTouchTeam
            defending == IF pos.x <= 0 THEN "home" ELSE "away"
            attacking == IF pos.x <= 0 THEN "away" ELSE "home"
        IN  IF pos.y <= 0 \/ pos.y >= 100
            THEN r.isOut /\ r.type = "throwin" /\ r.team # last /\ r.team \in Sides
            ELSE IF pos.x <= 0 \/ pos.x >= 100
            THEN IF last = defending
                 THEN /\ r.isOut /\ r.type = "corner" /\ r.team = attacking
                      /\ r.position.x = (IF pos.x <= 0 THEN 0 ELSE 100)
                      /\ r.position.y \in {0, 100}
                      /\ pos.y < 50 => r.position.y = 0
                      /\ pos.y > 50 => r.position.y = 100
                 ELSE r.isOut /\ r.type = "goalkick" /\ r.team = defending
            ELSE ~r.isOut /\ r.type = "none" /\ r.team = "none" /\ r.position = NullPosition

\* a corner was given for a ball over the lower half of a goal line
C11_CornerGiven ==
    /\ result.op = "isBallOutOfBounds"
    /\ result.value.type = "corner"
    /\ ball.position.y < 50

\* the ball of the claim's first example: behind home's goal line at mid-height
BehindHomeGoal(last) ==
    ball.position = Pos(-1, 50) /\ ball.lastTouchTeam = last

\* C12, as the code has it: at (-1,50) a ball last touched by home is a corner
\* for away at (0,100) and one last touched by away is a goal kick for home at
\* (5,50); at (101,50) a ball last touched by away is a corner for home at
\* (100,100).
C12_GoalLineExamples ==
    result.op = "isBallOutOfBounds" =>
        /\ BehindHomeGoal("home") =>
             result.value = [isOut |-> TRUE, type |-> "corner", team |-> "away",
                             position |-> Pos(0, 100)]
        /\ BehindHomeGoal("away") =>
             result.value = [isOut |-> TRUE, type |-> "goalkick", team |-> "home",
                             position |-> Pos(5, 50)]
        /\ (ball.position = Pos(101, 50) /\ ball.lastTouchTeam = "away") =>
             result.value = [isOut |-> TRUE, type |-> "corner", team |-> "home",
                             position |-> Pos(100, 100)]

\* the rules were asked about the ball at (-1,50) last touched by home
C12_AskedBehindHomeGoal ==
    result.op = "isBallOutOfBounds" /\ BehindHomeGoal("home")

\* C12, as claimed: at (-1,50) a ball last touched by home is a goal kick for
\* home at (5,50), and at (101,50) a ball last touched by away is a corner for
\* home at (100,0) or (100,100).
C12_GoalLineExamplesAsClaimed ==
    result.op = "isBallOutOfBounds" =>
        /\ BehindHomeGoal("home") =>
             result.value = [isOut |-> TRUE, type |-> "goalkick", team |-> "home",
                             position |-> Pos(5, 50)]
        /\ (ball.position = Pos(101, 50) /\ ball.lastTouchTeam = "away") =>
             /\ result.value.type = "corner" /\ result.value.team = "home"
             /\ result.value.position \in {Pos(100, 0), Pos(100, 100)}

\* C13: isGoalScored answers a goal for home exactly when x >= 100 and
\* 42.5 <= y <= 57.5, a goal for away exactly when x <= 0 and 42.5 <= y <= 57.5,
\* and no goal, with no team, for every other ball.
C13_GoalMouth ==
    result.op = "isGoalScored" =>
        LET r == result.value
            pos == ball.position
            inBand == 2 * pos.y >= 85 /\ 2 * pos.y <= 115
        IN  /\ (r.isGoal /\ r.team = "home") <=> (pos.x >= 100 /\ inBand)
            /\ (r.isGoal /\ r.team = "away") <=> (pos.x <= 0 /\ inBand)
            /\ r.isGoal \/ r.team = "none"
            /\ r.isGoal => r.team \in Sides

\* a ball on away's goal line just outside the goal mouth was judged no goal
C13_JustWide ==
    /\ result.op = "isGoalScored"
    /\ ball.position = Pos(100, 58)
    /\ ~result.value.isGoal

\* the DEF and GK players of a side
DefendersOf(side) ==
    { id \in DOMAIN players : players[id].team = side /\ players[id].role \in {"DEF", "GK"} }

\* the x of the second defender of D counted from the largest x (towards = 1) or
\* from the smallest (towards = -1), two defenders on one x counting twice
SecondMostAdvancedX(D, towards) ==
    CHOOSE v \in { players[d].position.x : d \in D } :
        /\ Cardinality({ d \in D : towards * players[d].position.x > towards * v }) <= 1
        /\ Cardinality({ d \in D : towards * players[d].position.x >= towards * v }) >= 2

\* C14: the offside line of home is the second-largest x among away's DEF and GK
\* players and that of away the second-smallest x among home's, and with fewer
\* than two of them the line is 40 for home and 60 for away.
C14_OffsideLine ==
    result.op = "calculateOffsideLine" =>
        /\ result.value.home = (IF Cardinality(DefendersOf("away")) >= 2
                                THEN SecondMostAdvancedX(DefendersOf("away"), 1) ELSE 40)
        /\ result.value.away = (IF Cardinality(DefendersOf("home")) >= 2
                                THEN SecondMostAdvancedX(DefendersOf("home"), -1) ELSE 60)

\* C15: isPlayerOffside(p) is true exactly when p is no goalkeeper and is beyond
\* both the ball and the line calculateOffsideLine reports for p's side, the
\* fallback 40 / 60 included.
C15_OffsideIffBeyondLineAndBall ==
    result.op = "isPlayerOffside" =>
        LET p == players[result.player]
            line == calculateOffsideLine(players)[p.team]
            towards == IF p.team = "home" THEN 1 ELSE -1
        IN  result.value <=>
              /\ p.role # "GK"
              /\ towards * p.position.x > towards * line
              /\ towards * p.position.x > towards * ball.position.x

\* C16: once the team tactical update of a tick has run, MatchState's tactical
\* state map holds for both teams the state just computed, and the decision step
\* of every player of the tick was given its own team's state.
C16_FreshTacticalState ==
    (pc = "ballOut") =>
        /\ \A side \in Sides :
             /\ teamData[side].id \in DOMAIN matchState.tacticalState
             /\ matchState.tacticalState[teamData[side].id] =
                    teamTacticalState[teamData[side].id]
        /\ \A id \in DOMAIN players :
             /\ aiContext[id].given
             /\ aiContext[id].teamTacticalState =
                    teamTacticalState[teamData[players[id].team].id]

\* C17: while a set-piece is active, analyzeTacticalSituation answers
\* setpieceAttack for the team of the side that owns the set-piece and
\* setpieceDefense for the other team, whatever id the team carries.
C17_SetpieceBehaviorBySide ==
    (result.op = "analyzeTacticalSituation" /\ matchState.setpiece.type # "none") =>
        result.value = (IF matchState.setpiece.team = result.side
                        THEN "setpieceAttack" ELSE "setpieceDefense")

\* C18: with no set-piece and gameTime > 80, analyzeTacticalSituation answers
\* parkTheBus for a team that has scored more than its opponent, allOutAttack
\* for one that has scored fewer and midBlock when level, home and away alike.
C18_LateGameBehavior ==
    (/\ result.op = "analyzeTacticalSituation"
     /\ matchState.setpiece.type = "none"
     /\ matchState.gameTime > 80) =>
        LET own == matchState.score[result.side]
            theirs == matchState.score[OtherSide(result.side)]
        IN  result.value = (IF own > theirs THEN "parkTheBus"
                            ELSE IF own < theirs THEN "allOutAttack" ELSE "midBlock")

\* C19: after an update has changed a team's behavior, the six tactical
\* parameters depend on the new behavior alone: two teams that an update has
\* brought to the same behavior (one that is not the behavior they started with,
\* so an update must have brought them there) have the same parameter values.
C19_ParametersFromBehaviorAlone ==
    LET home == teamTacticalState[teamData.home.id]
        away == teamTacticalState[teamData.away.id]
    IN  (/\ home.currentBehavior = away.currentBehavior
         /\ home.currentBehavior # initialTeamTacticalState.currentBehavior) =>
            home = away

\* C20: a call of makeSubstitution that repeats the request of the call before
\* it, which succeeded, fails with 'not found on the field' and changes neither
\* the active players, the rosters of the teams nor the bench.
C20_SameSubstitutionTwice ==
    [][(/\ result.op = "makeSubstitution"
        /\ result.success
        /\ result'.op = "makeSubstitution"
        /\ result'.request = result.request) =>
            /\ ~result'.success
            /\ result'.message = "Player to substitute out not found on the field"
            /\ players' = players
            /\ homeTeam' = homeTeam
            /\ awayTeam' = awayTeam
            /\ benchPlayers' = benchPlayers]_vars

\* a substitution was refused because the outgoing player, now on the bench of
\* the team, is no longer on the field
C20_RefusedSecondTime ==
    /\ result.op = "makeSubstitution"
    /\ ~result.success
    /\ result.message = "Player to substitute out not found on the field"
    /\ \E i \in 1 .. Len(benchPlayers[result.request.team]) :
          benchPlayers[result.request.team][i].id = result.request.playerOut
    /\ result.request.playerIn \in DOMAIN players

\* C21: a call of makeSubstitution whose outgoing id is no active player of the
\* requested side, or whose incoming id is not on that side's bench, returns
\* success false with a message, and leaves the bench, the rosters, the active
\* players and every position as they were.
C21_FailedSubstitutionChangesNothing ==
    [][(/\ result'.op = "makeSubstitution"
        /\ LET request == result'.request
               bench == benchPlayers[request.team]
           IN  \/ request.playerOut \notin DOMAIN players
               \/ players[request.playerOut].team # request.team
               \/ \A i \in 1 .. Len(bench) : bench[i].id # request.playerIn) =>
            /\ result'.success = FALSE
            /\ result'.message \in { "Player to substitute out not found on the field",
                                     "Player to substitute in not found on the bench" }
            /\ players' = players
            /\ homeTeam' = homeTeam
            /\ awayTeam' = awayTeam
            /\ benchPlayers' = benchPlayers]_vars

\* a substitution was refused because the incoming player is on no bench while
\* the outgoing one is on the field
C21_RefusedForTheBench ==
    /\ result.op = "makeSubstitution"
    /\ ~result.success
    /\ result.message = "Player to substitute in not found on the bench"
    /\ result.request.playerOut \in DOMAIN players

\* the log before a step is the head of log after it
LogGrows(before, after) ==
    /\ Len(before) <= Len(after)
    /\ \A i \in 1 .. Len(before) : after[i] = before[i]

\* C22: between resets (a reset leaves the phase idle) every step leaves the
\* logged events in place and in order and appends the new ones at the end, and
\* the timestamps never decrease along the log.
C22_EventLogAppendOnly ==
    [][matchState'.gameState # "idle" =>
          /\ LogGrows(matchState.gameEvents, matchState'.gameEvents)
          /\ \A i \in 1 .. Len(matchState'.gameEvents) - 1 :
                matchState'.gameEvents[i].time <= matchState'.gameEvents[i + 1].time]_vars

\* an event was appended to a log whose events are older
C22_LaterEventLogged ==
    /\ Len(matchState.gameEvents) >= 2
    /\ matchState.gameEvents[1].time < Last(matchState.gameEvents).time

\* C23: across player.update calls with gameSpeed > 0 and positive stamina, a
\* player's fatigue never decreases, stays within [0,1], and once at 1 stays at 1.
C23_FatigueMonotone ==
    [][\A id \in DOMAIN players :
          /\ players'[id].fatigue >= players[id].fatigue
          /\ players'[id].fatigue >= 0
          /\ players'[id].fatigue <= FatigueOne
          /\ players[id].fatigue = FatigueOne => players'[id].fatigue = FatigueOne]_vars

\* a player that an update has brought to fatigue 1
C23_Exhausted ==
    /\ result.op = "update"
    /\ players[result.player].fatigue = FatigueOne

\* C24: setTarget(t) stores t clamped componentwise into the pitch [0,100] x
\* [0,100], and every player's targetPosition lies within the pitch, whichever
\* operation assigned it last.
C24_TargetClampedIntoPitch ==
    /\ \A id \in DOMAIN players :
          /\ players[id].targetPosition.x \in 0 .. PitchMax
          /\ players[id].targetPosition.y \in 0 .. PitchMax
    /\ result.op = "setTarget" =>
          players[result.player].targetPosition =
              Pos(IF result.target.x < 0 THEN 0
                  ELSE IF result.target.x > PitchMax THEN PitchMax ELSE result.target.x,
                  IF result.target.y < 0 THEN 0
                  ELSE IF result.target.y > PitchMax THEN PitchMax ELSE result.target.y)

\* C25: the game speed always lies in [0.1, 4]; setGameSpeed(s) stores s when
\* 0.1 <= s <= 4, 0.1 when s is below and 4 when s is above, and changes no
\* other part of the match state.
C25_SpeedClamped ==
    [][/\ matchState'.gameSpeed >= MinSpeed
       /\ matchState'.gameSpeed <= MaxSpeed
       /\ \A speed \in SpeedRangeInputs :
             SetGameSpeed(speed) =>
                matchState' = [matchState EXCEPT !.gameSpeed =
                                  IF speed < MinSpeed THEN MinSpeed
                                  ELSE IF speed > MaxSpeed THEN MaxSpeed ELSE speed]]_vars

\* a running match, its clock advanced, at a speed only a call inside the range
\* can have stored
C25_SpeedStoredInRange ==
    /\ matchState.gameState = "playing"
    /\ matchState.gameTime > 0
    /\ matchState.gameSpeed \notin {MinSpeed, MaxSpeed, DefaultSpeed}

\* the ball on a goal line inside the goal mouth, side being the side that
\* attacks that goal (home attacks the goal at x = 100)
BallInGoalMouth(side) ==
    /\ 2 * ball.position.y >= 2 * GoalCenterY - GoalWidth
    /\ 2 * ball.position.y <= 2 * GoalCenterY + GoalWidth
    /\ IF side = "home" THEN ball.position.x >= PitchMax ELSE ball.position.x <= 0

\* C26: if the ball lies on a goal line inside the goal mouth when the rules check
\* of a tick begins, that tick logs a goal for the attacking side, whichever side
\* touched the ball last and whatever the current set-piece is.
C26_GoalMouthLogsGoal ==
    \A side \in Sides :
        (pc = "ballOut" /\ BallInGoalMouth(side))
            ~> (/\ pc = "ready"
                /\ matchState.gameEvents # <<>>
                /\ Last(matchState.gameEvents).type = "goal"
                /\ Last(matchState.gameEvents).teamId = side)

\* C27: once play has started the set-piece descriptor is never cleared: in
\* every state whose phase is playing, paused, halftime or fulltime the type of
\* the set-piece is non-null, so every tactical analysis of a tick (the rules
\* check follows it) finds a set-piece and yields a set-piece behavior.
C27_SetpieceNeverCleared ==
    /\ matchState.gameState \in {"playing", "paused", "halftime", "fulltime"} =>
          matchState.setpiece.type # "none"
    /\ pc = "ballOut" =>
          \A side \in Sides :
             teamTacticalState[teamData[side].id].currentBehavior
                 \in {"setpieceAttack", "setpieceDefense"}

\* a tick of a running match, its tactical analysis made, the set-piece still the
\* restart an earlier tick installed
C27_RestartStillActive ==
    /\ matchState.gameState = "playing"
    /\ pc = "ballOut"
    /\ matchState.setpiece.type \in {"throwin", "corner", "goalkick"}

\* the number of 'kickoff' events in the log
KickoffEvents ==
    Cardinality({ i \in 1 .. Len(matchState.gameEvents) :
                    matchState.gameEvents[i].type = "kickoff" })

\* C28: each start of a half logs exactly one kickoff event: in every state the
\* number of 'kickoff' events in the log equals the number of halves started so
\* far (none while the match is idle, matchState.half once it has left idle).
C28_OneKickoffPerHalf ==
    KickoffEvents = IF matchState.gameState = "idle" THEN 0 ELSE matchState.half

\* a restart has been awarded and the ball lies on its spot, at rest, nobody
\* in possession
RestartWaiting ==
    /\ matchState.setpiece.type \in {"corner", "goalkick", "throwin"}
    /\ ball.position = matchState.setpiece.position
    /\ ball.velocity = Pos(0, 0)
    /\ ball.possessor = NoPlayer

\* C29: after a restart (corner, goal kick or throw-in) has been awarded and the
\* ball placed on the restart spot, as long as no player touches the ball and it
\* has zero velocity, every step of a following tick leaves the set-piece
\* descriptor unchanged and appends no event to the log.
C29_RestartStable ==
    [][(pc # "ready" /\ RestartWaiting) =>
          /\ matchState'.setpiece = matchState.setpiece
          /\ matchState'.gameEvents = matchState.gameEvents]_vars

\* the roster a team was initialized with: the roles of its players, in order
RosterOf(team) == [i \in 1 .. Len(team.players) |-> players[team.players[i]].role]

\* C30: resetGame on an initialized engine returns the match to its initial
\* observable state whatever happened before: match state (apart from gameSpeed),
\* ball and players after resetGame are the ones right after initialize with the
\* same rosters.
C30_ResetRestoresInitialState ==
    [][(ResetGame /\ DOMAIN players # {}) =>
          LET e == initialize(matchState, RosterOf(homeTeam), RosterOf(awayTeam))
          IN  /\ [matchState' EXCEPT !.gameSpeed = DefaultSpeed]
                    = [e.ms EXCEPT !.gameSpeed = DefaultSpeed]
              /\ ball' = e.ball
              /\ players' = e.players]_vars

\* C31: for any interleaving of initialize, startGame, pauseGame, resetGame and
\* timer ticks at most one tick timer is active, and none is active while the
\* phase is idle, paused or fulltime.
C31_AtMostOneTimer ==
    /\ timers <= 1
    /\ matchState.gameState \in {"idle", "paused", "fulltime"} => timers = 0

\* a match started, paused and started again (each start at time 0 logged a
\* kickoff), one timer running
C31_RestartedWithOneTimer ==
    /\ matchState.gameState = "playing"
    /\ KickoffEvents = 2
    /\ timers = 1

\* updateAI with this context returns before it reaches makeDecision: a player
\* to mark is assigned, or one of the tactical overrides applies
OverrideApplies(id, context, rnd) ==
    \/ context.playerToMark # NoPlayer
    \/ /\ context.given
       /\ LET behavior == context.teamTacticalState.currentBehavior
          IN  \/ /\ behavior = "highPress"
                 /\ context.teamTacticalState.pressingIntensity > 7
                 /\ distanceSquared(players[id].position, ball.position) < 25 * 25
              \/ /\ behavior \in {"lowBlock", "parkTheBus"}
                 /\ players[id].role \in {"DEF", "MID"}
              \/ /\ behavior = "counterAttack"
                 /\ ball.lastTouchTeam = players[id].team
                 /\ (players[id].role = "FWD" \/ (players[id].role = "MID" /\ rnd.second))

\* the cooldown is set to 0.5 only by a decision step that found it <= 0, and it
\* decreases only through player.update
CooldownSetAndSpent ==
    \A id \in DOMAIN players :
        /\ (players'[id].decisionCooldown > players[id].decisionCooldown) =>
              /\ result'.op = "updateAI" /\ result'.player = id
              /\ players[id].decisionCooldown <= 0
              /\ players'[id].decisionCooldown = DecisionCooldown
        /\ (players'[id].decisionCooldown < players[id].decisionCooldown) =>
              result'.op = "update" /\ result'.player = id

\* C32 (as stated): while a player's decision cooldown is positive, a decision
\* step (updateAI) leaves lastAction equal to the previously chosen action and
\* does not restart the cooldown; a new action is chosen, and the cooldown set to
\* 0.5, only on a decision step at which the cooldown is <= 0, and the cooldown
\* decreases only through player.update.
C32_CooldownRepeatsAction ==
    [][/\ CooldownSetAndSpent
       /\ \A id \in DOMAIN players :
             (result'.op = "updateAI" /\ result'.player = id
                 /\ players[id].decisionCooldown > 0) =>
                /\ players'[id].lastAction = players[id].lastAction
                /\ players'[id].decisionCooldown = players[id].decisionCooldown]_vars

\* C32 (amended): the same for every decision step in which no player to mark is
\* assigned and no tactical override applies, that is, every step that reaches
\* makeDecision; such a step changes lastAction only when the cooldown is <= 0.
C32_CooldownRepeatsTreeAction ==
    [][/\ CooldownSetAndSpent
       /\ \A id \in DOMAIN players :
             (result'.op = "updateAI" /\ result'.player = id
                 /\ (\A rnd \in RandomInputs : ~OverrideApplies(id, result'.context, rnd))
                 /\ players[id].decisionCooldown > 0) =>
                /\ players'[id].lastAction = players[id].lastAction
                /\ players'[id].decisionCooldown = players[id].decisionCooldown]_vars

\* a player has just taken a decision step without override while cooling down,
\* the cooldown partly spent, an action chosen before
C32_DecidedWhileCoolingDown ==
    /\ result.op = "updateAI"
    /\ \A rnd \in RandomInputs : ~OverrideApplies(result.player, result.context, rnd)
    /\ players[result.player].decisionCooldown > 0
    /\ players[result.player].decisionCooldown < DecisionCooldown
    /\ players[result.player].lastAction # "none"

\* the cooldown of a player and the marking fields of all players are the same
\* after the step: makeDecision was not evaluated
DecisionNotEvaluated(id) ==
    /\ players'[id].decisionCooldown = players[id].decisionCooldown
    /\ \A o \in DOMAIN players :
          /\ players'[o].isMarking = players[o].isMarking
          /\ players'[o].isBeingMarkedBy = players[o].isBeingMarkedBy

\* C33: in updateAI the tactical override is decided before the tree: with a
\* highPress state of pressing intensity > 7 and the ball within 25 units,
\* lastAction becomes chaseBall and the target the ball position; with lowBlock or
\* parkTheBus and role DEF or MID, lastAction becomes maintainDefensivePosition;
\* in both cases makeDecision is not evaluated (cooldown and marking fields
\* unchanged), and makeDecision is evaluated (the cooldown restarted) only when
\* no override and no assigned player to mark applies.
C33_OverrideBeforeTree ==
    [][result'.op = "updateAI" =>
          LET id == result'.player
              context == result'.context
              tactical == context.teamTacticalState
              press == /\ context.given
                       /\ tactical.currentBehavior = "highPress"
                       /\ tactical.pressingIntensity > 7
                       /\ distanceSquared(players[id].position, ball.position) < 25 * 25
              hold == /\ context.given
                      /\ tactical.currentBehavior \in {"lowBlock", "parkTheBus"}
                      /\ players[id].role \in {"DEF", "MID"}
          IN  /\ (context.playerToMark = NoPlayer /\ press) =>
                    /\ players'[id].lastAction = "chaseBall"
                    /\ players'[id].targetPosition = ball.position
                    /\ DecisionNotEvaluated(id)
              /\ (context.playerToMark = NoPlayer /\ ~press /\ hold) =>
                    /\ players'[id].lastAction = "maintainDefensivePosition"
                    /\ DecisionNotEvaluated(id)
              /\ (players'[id].decisionCooldown > players[id].decisionCooldown) =>
                    \A rnd \in RandomInputs : ~OverrideApplies(id, context, rnd)]_vars

\* the result of the first child, in child order, that does not return 'failure'
firstNonFailure(childResults) ==
    LET open == { i \in DOMAIN childResults : childResults[i] # "failure" }
    IN  IF open = {} THEN "failure"
        ELSE childResults[CHOOSE i \in open : \A j \in open : i <= j]

\* C34: every evaluation of a selector node, the one that follows a 'running'
\* result included, returns the result of the first child in child order that
\* does not return 'failure', and 'failure' when every child fails; the stored
\* index is a valid child index, and it is 0 after a success or a failure.
C34_SelectorFirstNonFailure ==
    result.op = "selectorNode" =>
        /\ result.value = firstNonFailure(result.children)
        /\ lastRunningIndex \in 0..(Len(result.children) - 1)
        /\ result.value \in {"success", "failure"} => lastRunningIndex = 0

\* the part of C34 about the stored index alone
C34_IndexValid ==
    result.op = "selectorNode" =>
        /\ lastRunningIndex \in 0..(Len(result.children) - 1)
        /\ result.value \in {"success", "failure"} => lastRunningIndex = 0

\* the evaluations that start at child 0 return the first result that is no failure
C34_FromFirstChild ==
    (result.op = "selectorNode" /\ result.from = 0) =>
        result.value = firstNonFailure(result.children)

\* an evaluation that resumed behind the first child
C34_ResumedAfterRunning == result.op = "selectorNode" /\ result.from > 0

\* the fall-through of the defensive branch as C35 states it: chaseBall when the
\* ball is close, then markPlayer when a nearby opponent exists, then pressBall
\* when the ball is close, and maintainDefensivePosition at the end
statedDefensiveAction(P, id, b) ==
    IF distanceSquared(P[id].position, b.position) < 15 * 15 THEN "chaseBall"
    ELSE IF findNearbyPlayerToMark(P, id).target # NoPlayer THEN "markPlayer"
    ELSE IF distanceSquared(P[id].position, b.position) < 15 * 15 THEN "pressBall"
    ELSE "maintainDefensivePosition"

\* C35: for a field player without the ball whose team does not possess it, one
\* evaluation of the field-player tree writes one action to lastAction: chaseBall
\* only when the ball is close, otherwise, in this order, markPlayer (a nearby
\* opponent exists), pressBall (ball close), maintainDefensivePosition.
C35_DefensiveFallThrough ==
    [][\A id \in DOMAIN players :
          (/\ result'.op = "evaluateBehavior"
           /\ result'.player = id
           /\ ~hasBallCondition(players, id, ball)
           /\ ~teamHasBallCondition(players, id, ball))
          => /\ players'[id].lastAction = statedDefensiveAction(players, id, ball)
             /\ \A other \in DOMAIN players \ {id} : players'[other] = players[other]
             /\ \A f \in DOMAIN players[id] \ {"lastAction"} :
                   players'[id][f] = players[id][f]]_vars

\* what the tree does for such a player: chaseBall, wherever the ball is
C35_DefensiveAlwaysChases ==
    [][\A id \in DOMAIN players :
          (/\ result'.op = "evaluateBehavior"
           /\ result'.player = id
           /\ ~hasBallCondition(players, id, ball)
           /\ ~teamHasBallCondition(players, id, ball))
          => /\ players'[id].lastAction = "chaseBall"
             /\ players' = [players EXCEPT ![id].lastAction = "chaseBall"]]_vars

\* the elements of a list
Range(list) == { list[i] : i \in DOMAIN list }

\* C36: createMarkingAssignments pairs the i-th best defender by tackling with the
\* i-th most threatening opponent by finishing + dribbling for every i below
\* min(#defenders, #opponents) and nothing else: the map has that many entries,
\* no defender marks two opponents and no opponent has two markers; a better
\* opponent never has a worse marker, and whoever is left out is no better than
\* anyone paired.
C36_MarkingPairsByRank ==
    result.op = "createMarkingAssignments" =>
        LET map == result.value
            defenders == Range(result.defenders)
            opponents == Range(result.dangerousOpponents)
            threat(o) == o.attributes.finishing + o.attributes.dribbling
            marker(o) == CHOOSE d \in defenders : d.id = map[o.id]
            paired == { o \in opponents : o.id \in DOMAIN map }
            markers == { d \in defenders : \E o \in paired : map[o.id] = d.id }
            least == IF Cardinality(defenders) < Cardinality(opponents)
                     THEN Cardinality(defenders) ELSE Cardinality(opponents)
        IN  /\ DOMAIN map \subseteq { o.id : o \in opponents }
            /\ \A k \in DOMAIN map : map[k] \in { d.id : d \in defenders }
            /\ Cardinality(DOMAIN map) = least
            /\ Cardinality(markers) = least
            /\ \A a, b \in paired :
                  threat(a) > threat(b)
                     => marker(a).attributes.tackling >= marker(b).attributes.tackling
            /\ \A a \in paired, b \in opponents \ paired : threat(a) >= threat(b)
            /\ \A d \in markers, e \in defenders \ markers :
                  d.attributes.tackling >= e.attributes.tackling

\* three defenders given behind their order of tackling, two opponents given
\* behind their order of threat: the best defender marks the opponent given last
C36_PairedAgainstInputOrder ==
    /\ result.op = "createMarkingAssignments"
    /\ Len(result.defenders) = 3
    /\ result.defenders[1].id = 2 /\ result.defenders[2].id = 4
    /\ Len(result.dangerousOpponents) = 2
    /\ result.dangerousOpponents[1].id = 14 /\ result.dangerousOpponents[2].id = 13
    /\ result.value[13] = 3

\* C37: after any sequence of decision steps the marking relation is consistent:
\* when an opponent's isBeingMarkedBy names a player, that player's isMarking
\* names the opponent, and no player is the recorded marker of two opponents.
C37_MarkingConsistent ==
    /\ \A o \in DOMAIN players :
          players[o].isBeingMarkedBy # NoPlayer
             => players[players[o].isBeingMarkedBy].isMarking = o
    /\ \A o1, o2 \in DOMAIN players :
          (/\ players[o1].isBeingMarkedBy # NoPlayer
           /\ players[o1].isBeingMarkedBy = players[o2].isBeingMarkedBy) => o1 = o2

\* the second half of C37 alone
C37_OneOpponentPerMarker ==
    \A o1, o2 \in DOMAIN players :
        (/\ players[o1].isBeingMarkedBy # NoPlayer
         /\ players[o1].isBeingMarkedBy = players[o2].isBeingMarkedBy) => o1 = o2

\* the ids on the two benches
BenchIds ==
    UNION { { benchPlayers[side][i].id : i \in 1 .. Len(benchPlayers[side]) } :
            side \in Sides }

\* a list holds the id in at the index where the list before held the id out, and
\* is the list before everywhere else
ReplacedInPlace(before, after, out, in) ==
    /\ Len(after) = Len(before)
    /\ \E i \in 1 .. Len(before) :
          /\ before[i] = out
          /\ after[i] = in
          /\ \A j \in 1 .. Len(before) : j # i => after[j] = before[j]

\* C38: a successful substitution gives the incoming player the outgoing player's
\* position, target, and index in the returned active list and in the team
\* roster, and puts the outgoing player in the bench slot the incoming one left;
\* the sizes of active list, roster and bench stay, and after any sequence of
\* substitutions no player is in the active list and on a bench at once.
C38_SubstitutionSwapsInPlace ==
    [][(result'.op = "makeSubstitution" /\ result'.success) =>
          LET out == result'.request.playerOut
              in == result'.request.playerIn
              side == result'.request.team
              roster(h, a) == IF side = "home" THEN h.players ELSE a.players
              bench == benchPlayers[side]
              benchAfter == benchPlayers'[side]
          IN  /\ in \in DOMAIN players' /\ out \in DOMAIN players
              /\ players'[in].position = players[out].position
              /\ players'[in].targetPosition = players[out].targetPosition
              /\ ReplacedInPlace(activeList, activeList', out, in)
              /\ ReplacedInPlace(roster(homeTeam, awayTeam), roster(homeTeam', awayTeam'),
                                 out, in)
              /\ ReplacedInPlace([i \in 1 .. Len(bench) |-> bench[i].id],
                                 [i \in 1 .. Len(benchAfter) |-> benchAfter[i].id], in, out)
              /\ DOMAIN players' = { activeList'[i] : i \in 1 .. Len(activeList') }
              /\ { activeList'[i] : i \in 1 .. Len(activeList') } \cap BenchIds' = {}]_vars

\* a second substitution brought the first outgoing player back: player 1 is on
\* the field again, at the head of the active list, and player 7 on the bench
C38_SwappedBack ==
    /\ result.op = "makeSubstitution"
    /\ result.success
    /\ result.request.playerOut = 7
    /\ result.request.playerIn = 1
    /\ activeList[1] = 1
    /\ 7 \in BenchIds

AvailablePlayersPlaced ==
    \A id \in DOMAIN players :
        (~players[id].injured /\ ~players[id].redCard)
           => /\ id \in DOMAIN homeTeam.formationPositions
              /\ players[id].position = homeTeam.formationPositions[id]
              /\ players[id].targetPosition = homeTeam.formationPositions[id]

\* C40: after setupFormation or changeFormation to any value of FormationType,
\* every available player of an 11-player roster whose role counts match that
\* formation has a formation position, so that the resets place the player and
\* the positioning step moves the player.
C40_EveryFormationPlacesRoster ==
    (/\ result.op = "changeFormation"
     /\ roleCounts(result.roster) = roleCounts(result.formation))
        => AvailablePlayersPlaced

\* the same for the five formations setupFormation has a case for, with the whole
\* roster available
C40_FiveFormationsPlaceFullRoster ==
    (/\ result.op = "changeFormation"
     /\ roleCounts(result.roster) = roleCounts(result.formation)
     /\ result.formation # "4-5-1"
     /\ \A id \in DOMAIN players : ~players[id].redCard)
        => AvailablePlayersPlaced

\* after a change to '4-5-1' the team has no formation position at all
C40_NoPositionsIn451 ==
    (result.op = "changeFormation" /\ result.formation = "4-5-1")
        => homeTeam.formationPositions = <<>>

\* the five formations again, with a player of the roster sent off: the players
\* left of a line that is no longer full have no formation position
C40_FiveFormationsPlaceAvailable ==
    (/\ result.op = "changeFormation"
     /\ roleCounts(result.roster) = roleCounts(result.formation)
     /\ result.formation # "4-5-1")
        => AvailablePlayersPlaced

====
